---------------------------- MODULE Spec2Model ----------------------------
(***************************************************************************)
(* Scan orchestration and price loading of the Rectifex global screener.   *)
(*                                                                         *)
(* ScanRunner (core/runners.py) owns a single-slot manager executor, an    *)
(* active handle, a cancellation event, and, per scan, a bounded worker    *)
(* pool.  The threads of the model are: the caller (start, stop), the one  *)
(* manager thread (the body of _run_scan and the done-callbacks of the     *)
(* handle it resolves) and the workers of the per-scan pool (_process).    *)
(***************************************************************************)
EXTENDS Integers, Sequences, FiniteSets, TLC

\* ------------------------------------------------------------------ bounds
\* Number of start() calls the caller makes.
MaxScans == 3
\* Largest number of distinct symbols handed to one scan.
MaxSyms == 2
\* Width of the per-scan worker pool (the constructor's max_workers).
max_workers == 2
\* Days a cache entry stays fresh (CacheConfig.ttl_days).
ttl_days == 7
\* Times the clock is moved past the ttl in the runs of the loader alone.
MaxClockJumps == 1
\* Longest raw symbol list handed to start() in the runs of the normalisation.
MaxRaw == 3
\* Number of start() calls in the runs with an on_progress callback.
MaxStartsWithProgress == 2
\* Number of start() calls in the runs where the calls of stop() are observed.
MaxStartsWithStops == 2
\* The observer counts the calls of stop() during a scan up to this many.
MaxStopsCounted == 2
\* Number of start() calls in the runs that also call shutdown().
MaxStartsWithShutdown == 2
\* The largest ttl, in days, passed to is_stale.
MaxTtl == 9
\* The most symbols passed to fetch_batch, and the largest chunk_size.
MaxFetched == 3
MaxChunk == 2
\* The largest max_retries a Fetcher is built with.
MaxRetries == 4

\* The most times the main window's chart request token is incremented.
MaxTokens == 4

\* ------------------------------------------------------------ value spaces
None == "None"
\* An empty DataFrame (df.empty is true).
EmptyFrame == "empty"

\* A cache file that pd.read_parquet cannot read (a write that stopped midway).
Unreadable == "unreadable"
\* Non-empty price series: "old" is what an earlier session left in the cache,
\* "new" what the data source serves now, so that a stale and a fetched series
\* differ.
Series == {"old", "new"}
\* Every non-empty frame of the model, by name, with what the cache can tell
\* apart: its values, whether its DatetimeIndex is timezone-aware, whether the
\* index carries a freq, and whether pd.infer_freq finds one in its timestamps
\* (three rows or more, evenly spaced).  "old" and "new" are frames as
\* Fetcher._prepare_frame leaves them: timezone-naive, without freq, uneven.
Frames ==
    "old" :> [values |-> "old", tz |-> "naive", freq |-> "unset", regular |-> FALSE] @@
    "old_regular" :> [values |-> "old", tz |-> "naive", freq |-> "unset", regular |-> TRUE] @@
    "old_freq" :> [values |-> "old", tz |-> "naive", freq |-> "set", regular |-> FALSE] @@
    "old_freq_regular" :> [values |-> "old", tz |-> "naive", freq |-> "set", regular |-> TRUE] @@
    "old_tz" :> [values |-> "old", tz |-> "aware", freq |-> "unset", regular |-> FALSE] @@
    "old_tz_regular" :> [values |-> "old", tz |-> "aware", freq |-> "unset", regular |-> TRUE] @@
    "old_tz_freq" :> [values |-> "old", tz |-> "aware", freq |-> "set", regular |-> FALSE] @@
    "old_tz_freq_regular" :> [values |-> "old", tz |-> "aware", freq |-> "set", regular |-> TRUE] @@
    "new" :> [values |-> "new", tz |-> "naive", freq |-> "unset", regular |-> FALSE] @@
    "new_regular" :> [values |-> "new", tz |-> "naive", freq |-> "unset", regular |-> TRUE] @@
    "new_freq" :> [values |-> "new", tz |-> "naive", freq |-> "set", regular |-> FALSE] @@
    "new_freq_regular" :> [values |-> "new", tz |-> "naive", freq |-> "set", regular |-> TRUE] @@
    "new_tz" :> [values |-> "new", tz |-> "aware", freq |-> "unset", regular |-> FALSE] @@
    "new_tz_regular" :> [values |-> "new", tz |-> "aware", freq |-> "unset", regular |-> TRUE] @@
    "new_tz_freq" :> [values |-> "new", tz |-> "aware", freq |-> "set", regular |-> FALSE] @@
    "new_tz_freq_regular" :> [values |-> "new", tz |-> "aware", freq |-> "set", regular |-> TRUE]

\* The frame with the given index attributes.
frame(attrs) == CHOOSE name \in DOMAIN Frames : Frames[name] = attrs

\* The message of an exception raised by scenario.evaluate.
ExcMessages == {"boom", "missing", "cancelled"}

\* Raw symbol strings are sequences of characters.
LowerLetters == <<"a", "b", "c", "d", "e">>
UpperLetters == <<"A", "B", "C", "D", "E">>

\* str.upper on one character.
upper_char(ch) ==
    IF \E i \in DOMAIN LowerLetters : LowerLetters[i] = ch
    THEN UpperLetters[CHOOSE i \in DOMAIN LowerLetters : LowerLetters[i] = ch]
    ELSE ch

\* str.upper
upper(s) == [i \in DOMAIN s |-> upper_char(s[i])]

RECURSIVE lstrip(_)
\* str.lstrip: drop leading blanks.
lstrip(s) == IF s # <<>> /\ Head(s) = " " THEN lstrip(Tail(s)) ELSE s

RECURSIVE rstrip(_)
\* str.rstrip: drop trailing blanks.
rstrip(s) ==
    IF s # <<>> /\ s[Len(s)] = " " THEN rstrip(SubSeq(s, 1, Len(s) - 1)) ELSE s

\* str.strip
strip(s) == rstrip(lstrip(s))

\* The elements of a sequence.
Range(s) == {s[i] : i \in DOMAIN s}

RECURSIVE normalise_from_keeps_duplicates(_, _, _)
\* (mutant) the loop without its test of seen: only empty keys are dropped.
normalise_from_keeps_duplicates(symbols, deduplicated, seen) ==
    IF symbols = <<>> THEN deduplicated
    ELSE LET key == upper(strip(Head(symbols))) IN
         IF key = <<>>
         THEN normalise_from_keeps_duplicates(Tail(symbols), deduplicated, seen)
         ELSE normalise_from_keeps_duplicates(Tail(symbols),
                                              Append(deduplicated, key),
                                              seen \cup {key})

RECURSIVE normalise_from(_, _, _)
\* The loop of _normalise_symbols over the rest of the input, with the list
\* built so far and the set of keys seen.
normalise_from(symbols, deduplicated, seen) ==
    IF symbols = <<>> THEN deduplicated
    ELSE LET key == upper(strip(Head(symbols))) IN
         IF key = <<>> \/ key \in seen
         THEN normalise_from(Tail(symbols), deduplicated, seen)
         ELSE normalise_from(Tail(symbols), Append(deduplicated, key),
                             seen \cup {key})

\* ScanRunner._normalise_symbols
normalise_symbols(symbols) == normalise_from(symbols, <<>>, {})

\* The raw symbol list a caller passes for n distinct tickers: n lower-case
\* one-letter tickers, then the first again, padded and in upper case (for
\* n = 0 a blank entry).
RawList(n) ==
    [i \in 1..(n + 1) |->
        IF i <= n THEN <<LowerLetters[i]>>
        ELSE IF n = 0 THEN <<" ", " ">>
        ELSE <<" ", UpperLetters[1], " ">>]

\* Raw symbol strings a caller may write for the tickers of the model: empty,
\* blank, lower case, upper case, padded with blanks.
RawStrings ==
    {<<>>, <<" ">>} \cup
    UNION {{<<LowerLetters[i]>>, <<UpperLetters[i]>>, <<" ", LowerLetters[i], " ">>} :
             i \in 1..MaxSyms}

\* Every list of at most MaxRaw raw symbol strings.
RawInputs == UNION {[1..n -> RawStrings] : n \in 0..MaxRaw}

\* The normalised keys any scan of the model can hold.
Keys == {<<UpperLetters[i]>> : i \in 1..MaxSyms}


\* ------------------------------------------------------------------- cache
\* No metadata row and no file: the entry Cache holds for a key never stored.
AbsentEntry == [df |-> None, indexed |-> FALSE, updated_at |-> 0]

\* Cache.set before the write: a copy whose index, if timezone-aware, is
\* converted to naive UTC.
to_store(df) == frame([Frames[df] EXCEPT !.tz = "naive"])

\* DataFrame.to_parquet then pd.read_parquet: the freq of the index is not
\* preserved.
parquet(df) == frame([Frames[df] EXCEPT !.freq = "unset"])

\* (mutant) Cache.get returns the frame as read.
restore_index_frequency_skipped(df) == df

\* Cache._restore_index_frequency: an index without freq gets the one
\* pd.infer_freq finds, if any.
restore_index_frequency(df) ==
    IF Frames[df].freq = "set" THEN df
    ELSE IF Frames[df].regular THEN frame([Frames[df] EXCEPT !.freq = "set"])
    ELSE df

\* Cache.get: the stored series, or None when there is no file or it is empty.
cache_get(c, symbol) ==
    IF c[symbol].df \in {None, Unreadable, EmptyFrame} THEN None
    ELSE restore_index_frequency(c[symbol].df)

\* (mutant) an entry exactly ttl days old already counts as stale.
is_stale_inclusive(c, symbol, t, ttl) ==
    IF ~c[symbol].indexed THEN TRUE
    ELSE c[symbol].updated_at <= t - ttl

\* Cache.is_stale with a ttl given: no metadata row, or updated_at older than
\* now - ttl.
is_stale(c, symbol, t, ttl) ==
    IF ~c[symbol].indexed THEN TRUE
    ELSE c[symbol].updated_at < t - ttl

\* Cache.is_stale without a ttl: the ttl_days of the cache is used.
cache_is_stale(c, symbol, t) == is_stale(c, symbol, t, ttl_days)

\* Cache.set: nothing for an empty frame, else the file and its metadata row.
cache_set(c, symbol, df, t) ==
    IF df = None \/ df = EmptyFrame THEN c
    ELSE [c EXCEPT ![symbol] = [df |-> parquet(to_store(df)), indexed |-> TRUE,
                                updated_at |-> t]]

\* ------------------------------------------------------------------ loader
\* The accumulators of _load_price_data before its first loop, with the cache
\* it works on and the calls it has made: cache.set (by symbol) and
\* fetch_batch (the argument lists, in order).
LoaderStart(c) ==
    [price_map |-> [k \in Keys |-> None], stale_cache |-> [k \in Keys |-> None],
     cache_hits |-> 0, cache_misses |-> 0, symbols_to_fetch |-> <<>>,
     cache |-> c, set_calls |-> {}, fetch_calls |-> <<>>]

RECURSIVE cache_pass_no_continue(_, _, _)
\* (mutant) the first loop without its continue: a fresh entry is used and
\* still marked for fetch.
cache_pass_no_continue(symbols, acc, t) ==
    IF symbols = <<>> THEN acc
    ELSE LET symbol == Head(symbols)
             cached_df == cache_get(acc.cache, symbol)
         IN IF cached_df # None /\ cached_df # EmptyFrame
            THEN IF ~cache_is_stale(acc.cache, symbol, t)
                 THEN cache_pass_no_continue(Tail(symbols),
                        [acc EXCEPT !.price_map[symbol] = cached_df,
                                    !.cache_hits = @ + 1,
                                    !.symbols_to_fetch = Append(@, symbol)], t)
                 ELSE cache_pass_no_continue(Tail(symbols),
                        [acc EXCEPT !.stale_cache[symbol] = cached_df,
                                    !.symbols_to_fetch = Append(@, symbol)], t)
            ELSE cache_pass_no_continue(Tail(symbols),
                        [acc EXCEPT !.symbols_to_fetch = Append(@, symbol)], t)

RECURSIVE cache_pass(_, _, _)
\* First loop of _load_price_data: fresh entries go to price_map and count as
\* hits, stale ones are kept aside, everything not fresh is marked for fetch.
cache_pass(symbols, acc, t) ==
    IF symbols = <<>> THEN acc
    ELSE LET symbol == Head(symbols)
             cached_df == cache_get(acc.cache, symbol)
         IN IF cached_df # None /\ cached_df # EmptyFrame
            THEN IF ~cache_is_stale(acc.cache, symbol, t)
                 THEN cache_pass(Tail(symbols),
                        [acc EXCEPT !.price_map[symbol] = cached_df,
                                    !.cache_hits = @ + 1], t)
                 ELSE cache_pass(Tail(symbols),
                        [acc EXCEPT !.stale_cache[symbol] = cached_df,
                                    !.symbols_to_fetch = Append(@, symbol)], t)
            ELSE cache_pass(Tail(symbols),
                        [acc EXCEPT !.symbols_to_fetch = Append(@, symbol)], t)

RECURSIVE fetch_pass_no_fallback(_, _, _, _)
\* (mutant) the second loop without its elif: a failed fetch leaves the
\* symbol without data even when a stale series was kept.
fetch_pass_no_fallback(to_fetch, fetched, acc, t) ==
    IF to_fetch = <<>> THEN acc
    ELSE LET symbol == Head(to_fetch)
             df == fetched[symbol]
         IN IF df # None /\ df # EmptyFrame
            THEN fetch_pass_no_fallback(Tail(to_fetch), fetched,
                   [acc EXCEPT !.price_map[symbol] = df,
                               !.cache = cache_set(@, symbol, df, t),
                               !.set_calls = @ \cup {symbol},
                               !.cache_misses = @ + 1], t)
            ELSE fetch_pass_no_fallback(Tail(to_fetch), fetched, acc, t)

RECURSIVE fetch_pass(_, _, _, _)
\* Second loop of _load_price_data, over symbols_to_fetch with the mapping
\* fetch_batch returned: non-empty data is used, written through and counted
\* as a miss; otherwise the stale series, if any, is used.
fetch_pass(to_fetch, fetched, acc, t) ==
    IF to_fetch = <<>> THEN acc
    ELSE LET symbol == Head(to_fetch)
             df == fetched[symbol]
         IN IF df # None /\ df # EmptyFrame
            THEN fetch_pass(Tail(to_fetch), fetched,
                   [acc EXCEPT !.price_map[symbol] = df,
                               !.cache = cache_set(@, symbol, df, t),
                               !.set_calls = @ \cup {symbol},
                               !.cache_misses = @ + 1], t)
            ELSE IF acc.stale_cache[symbol] # None
            THEN fetch_pass(Tail(to_fetch), fetched,
                   [acc EXCEPT !.price_map[symbol] = acc.stale_cache[symbol]], t)
            ELSE fetch_pass(Tail(to_fetch), fetched, acc, t)

\* What fetch_batch may return for the symbols asked: per symbol absent, an
\* empty frame or a series.
FetchResults(to_fetch) == [Range(to_fetch) -> {None, EmptyFrame, "new"}]

\* The symbols _load_price_data asks fetch_batch for.
symbols_to_fetch(symbols, c, t) ==
    cache_pass(symbols, LoaderStart(c), t).symbols_to_fetch

\* ScanRunner._load_price_data, given what fetch_batch returns if called:
\* the cache pass, then, if any symbol is marked, one fetch_batch and the
\* fetch pass.
load_price_data(symbols, c, t, fetched) ==
    LET first == cache_pass(symbols, LoaderStart(c), t) IN
    IF first.symbols_to_fetch # <<>>
    THEN fetch_pass(first.symbols_to_fetch, fetched,
                    [first EXCEPT !.fetch_calls = Append(@, first.symbols_to_fetch)],
                    t)
    ELSE first


\* ------------------------------------------------------------------- state
VARIABLES
    active_future,   \* ScanRunner._active_future: 0 (None) or a handle id
    cancel_event,    \* ScanRunner._cancel_event
    futures,         \* the handles start() returned, by id
    done_callbacks,  \* per handle: "none", "registered" or "invoked"
    next_id,         \* handles submitted so far
    caller,          \* the caller thread: [pc, id]
    mgr,             \* the manager thread: [pc, id]
    scan,            \* the local variables of the running (or last) _run_scan
    units,           \* the futures of the per-scan pool, one per symbol
    cache,           \* the price cache, by key
    now,             \* the clock, in days
    loaded,          \* what the latest price resolution read and did
    client,          \* how the orchestrator is used: the calls made, the callbacks passed
    window,          \* the main window's chart requests: token, loads, events, widget
    observed         \* what an observer of the calls has noted (history only;
                     \* Stop and StartAccepted leave it to the specification
                     \* that composes them)

vars == <<active_future, cancel_event, futures, done_callbacks, next_id,
          caller, mgr, scan, units, cache, now, loaded, client, window,
          observed>>

ScanIds == 1..MaxScans

\* A handle nobody submitted yet.
NoFuture == [state |-> "new", result |-> "none", strategy |-> None,
             raw |-> <<>>, symbols |-> <<>>,
             stop_called |-> FALSE, shutdown_called |-> FALSE, resolutions |-> 0]

\* The locals of _run_scan before a scan (total, counters, price_map), the
\* exception leaving it, if any (raised), and what the scan saw happen: the
\* on_result calls, whether one raised, the evaluations that raised, whether
\* stop() was called while its loop ran, the snapshots on_progress was called
\* with and how many of these calls raised.
NoScan ==
    [symbols |-> <<>>, total |-> 0, processed |-> 0, skipped |-> 0, errors |-> 0,
     cache_hits |-> 0, cache_misses |-> 0, price_map |-> [k \in Keys |-> None],
     raised |-> None,
     delivered |-> 0, on_result_raised |-> FALSE, evaluate_raised |-> 0,
     stopped_in_loop |-> FALSE, progress |-> <<>>, progress_raised |-> 0]

\* ScanProgress(total, processed, skipped, errors) of the scan's counters.
ScanProgress(sc) ==
    [total |-> sc.total, processed |-> sc.processed, skipped |-> sc.skipped,
     errors |-> sc.errors]

\* Whether a call of the on_progress callback may raise: never without a
\* callback or with one that returns.
callback_outcomes(callback) == IF callback = "raises" THEN BOOLEAN ELSE {FALSE}

\* (mutant) _emit_progress calls the callback a second time.
emit_progress_twice(callback, log, progress) ==
    IF callback # None THEN Append(Append(log, progress), progress) ELSE log

\* _emit_progress: the callback, if there is one, is called with the snapshot.
emit_progress(callback, log, progress) ==
    IF callback # None THEN Append(log, progress) ELSE log

\* (mutant) _emit_progress without its try: the exception goes on.
progress_exception_uncaught(raises) == IF raises THEN "progress_error" ELSE None

\* What leaves _emit_progress when the callback raises or not: nothing, the
\* exception is caught and logged.
progress_exception(raises) == None

\* A unit of work just submitted to the pool.
QueuedUnit == [state |-> "queued", result |-> "none", error |-> None,
               evaluated |-> FALSE,
               in_flight_at_stop |-> FALSE, started_after_stop |-> FALSE]

\* A unit the scan loop has taken from as_completed.
ConsumedUnit == [QueuedUnit EXCEPT !.state = "consumed"]

\* Nothing resolved yet.
NoLoad == [cache_before |-> [k \in Keys |-> AbsentEntry], at |-> 0,
           symbols |-> <<>>, fetched |-> <<>>, fetch_calls |-> <<>>,
           price_map |-> [k \in Keys |-> None], cache_hits |-> 0,
           cache_misses |-> 0, set_calls |-> {}]

\* The main window as constructed: no chart request made, nothing shown.
NoWindow ==
    [pc |-> "idle", chart_request_token |-> 0, loads |-> <<>>, events |-> {},
     chart |-> [shown |-> "nothing", token |-> 0, outcome |-> "none"]]

\* The caller between two calls, the last of which raised nothing.
IdleCaller == [pc |-> "idle", id |-> 0, raised |-> None]

\* What start() may be given as its strategy: a scenario instance, an
\* identifier of the registry, an identifier the registry does not hold.
Strategies == {"instance", "registered", "unregistered"}

\* The identifiers of SCENARIO_REGISTRY.
SCENARIO_REGISTRY == {"registered"}

\* (mutant) a lookup that never fails: SCENARIO_REGISTRY.get(strategy, default).
resolve_scenario_with_default(strategy) == "scenario"

\* ScanRunner._resolve_scenario: the instance itself, an instance of the
\* registered class, or ValueError for an identifier that is not registered.
resolve_scenario(strategy) ==
    IF strategy = "instance" THEN "scenario"
    ELSE IF strategy \in SCENARIO_REGISTRY THEN "scenario"
    ELSE "ValueError"

\* Nothing noted yet: no stop() on an idle runner (idle_stop), the latest
\* scan not started after one (after_idle_stop), no scan yet that started
\* after one and ran in full (unaffected), no stop() since the latest start().
NoObservation == [idle_stop |-> FALSE, after_idle_stop |-> FALSE,
                  unaffected |-> FALSE, stops |-> 0]

\* Future.done()
done(f) == f.state = "finished" \/ f.state = "cancelled"

\* The use made of the runner in the scans of Spec: up to MaxScans calls of
\* start(), each without an on_progress callback.
PlainClient == [starts |-> MaxScans, on_progress |-> None]

\* One call of start(), without an on_progress callback.
OneScanClient == [starts |-> 1, on_progress |-> None]

\* A caller that may pass any strategy and call shutdown().
ClosingClient == [starts |-> MaxStartsWithShutdown, on_progress |-> None]

\* A caller that passes an on_progress callback which may raise.
ProgressClient == [starts |-> MaxStartsWithProgress, on_progress |-> "raises"]

\* A caller whose calls of stop() are observed.
StoppingClient == [starts |-> MaxStartsWithStops, on_progress |-> None]

\* A cache entry written at time t.
Entry(df, t) == [df |-> df, indexed |-> TRUE, updated_at |-> t]

\* The cache directories the runner may be constructed over: per key nothing,
\* a series written today, one written exactly ttl_days ago, or one written
\* before that.
InitialCaches ==
    [Keys -> {AbsentEntry, Entry("old", ttl_days + 1), Entry("old", 1),
              Entry("old", 0)}]

Init ==
    /\ active_future = 0
    /\ cancel_event = FALSE
    /\ futures = [i \in ScanIds |-> NoFuture]
    /\ done_callbacks = [i \in ScanIds |-> "none"]
    /\ next_id = 0
    /\ caller = IdleCaller
    /\ mgr = [pc |-> "idle", id |-> 0, shutdown |-> FALSE]
    /\ scan = NoScan
    /\ units = <<>>
    /\ cache = [k \in Keys |-> AbsentEntry]
    /\ now = ttl_days + 1
    /\ loaded = NoLoad
    /\ client = PlainClient
    /\ window = NoWindow
    /\ observed = NoObservation

\* A runner just constructed, over an empty cache directory, for a client.
InitFor(cl) ==
    /\ active_future = 0
    /\ cancel_event = FALSE
    /\ futures = [i \in ScanIds |-> NoFuture]
    /\ done_callbacks = [i \in ScanIds |-> "none"]
    /\ next_id = 0
    /\ caller = IdleCaller
    /\ mgr = [pc |-> "idle", id |-> 0, shutdown |-> FALSE]
    /\ scan = NoScan
    /\ units = <<>>
    /\ cache = [k \in Keys |-> AbsentEntry]
    /\ now = ttl_days + 1
    /\ loaded = NoLoad
    /\ client = cl
    /\ window = NoWindow
    /\ observed = NoObservation


\* ------------------------------------------------------------------ caller
\* The busy test of start(): an active handle that is not done.
scan_active == active_future # 0 /\ ~done(futures[active_future])

\* (mutant) start() leaves the event as stop() left it.
clear_skipped(flag) == flag

\* threading.Event.clear()
clear(flag) == FALSE

\* start() with a strategy _resolve_scenario rejects: ValueError, raised
\* before the lock is taken.
StartUnknownStrategy(strategy) ==
    /\ caller.pc = "idle"
    /\ next_id < client.starts
    /\ resolve_scenario(strategy) = "ValueError"
    /\ caller' = [caller EXCEPT !.raised = "ValueError"]
    /\ UNCHANGED <<window, client, observed, active_future, cancel_event, futures, done_callbacks,
                   next_id, mgr, scan, units, cache, now, loaded>>

\* (mutant) start() clears the event before it tests for a running scan.
StartBusyAfterClear(strategy) ==
    /\ caller.pc = "idle"
    /\ next_id < client.starts
    /\ resolve_scenario(strategy) # "ValueError"
    /\ scan_active
    /\ cancel_event' = clear(cancel_event)
    /\ caller' = [caller EXCEPT !.raised = "RuntimeError"]
    /\ UNCHANGED <<window, client, observed, active_future, futures, done_callbacks,
                   next_id, mgr, scan, units, cache, now, loaded>>

\* start() while a scan is active: RuntimeError("A scan is already running").
StartBusy(strategy) ==
    /\ caller.pc = "idle"
    /\ next_id < client.starts
    /\ resolve_scenario(strategy) # "ValueError"
    /\ scan_active
    /\ caller' = [caller EXCEPT !.raised = "RuntimeError"]
    /\ UNCHANGED <<window, client, observed, active_future, cancel_event, futures, done_callbacks,
                   next_id, mgr, scan, units, cache, now, loaded>>

\* start() after shutdown(): the event is cleared, then submit raises
\* RuntimeError("cannot schedule new futures after shutdown").
StartAfterShutdown(strategy) ==
    /\ caller.pc = "idle"
    /\ next_id < client.starts
    /\ resolve_scenario(strategy) # "ValueError"
    /\ ~scan_active
    /\ mgr.shutdown
    /\ cancel_event' = clear(cancel_event)
    /\ caller' = [caller EXCEPT !.raised = "RuntimeError"]
    /\ UNCHANGED <<window, client, observed, active_future, futures, done_callbacks,
                   next_id, mgr, scan, units, cache, now, loaded>>

\* start(symbols): the symbols are normalised, then, under the lock, the
\* cancellation event is cleared, _run_scan is submitted to the manager
\* executor and its handle made the active one.
StartAccepted(strategy, symbols) ==
    /\ caller.pc = "idle"
    /\ next_id < client.starts
    /\ resolve_scenario(strategy) # "ValueError"
    /\ ~scan_active
    /\ ~mgr.shutdown
    /\ cancel_event' = clear(cancel_event)
    /\ next_id' = next_id + 1
    /\ futures' = [futures EXCEPT ![next_id + 1] =
                     [NoFuture EXCEPT !.state = "pending",
                                      !.strategy = strategy,
                                      !.raw = symbols,
                                      !.symbols = normalise_symbols(symbols)]]
    /\ active_future' = next_id + 1
    /\ caller' = [pc |-> "add_done_callback", id |-> next_id + 1, raised |-> None]
    /\ UNCHANGED <<window, client, done_callbacks, mgr, scan, units, cache, now, loaded>>

\* start(), after the lock: future.add_done_callback(_clear_active).  On a
\* handle already finished the callback runs at once, in the caller.
AddDoneCallback ==
    /\ caller.pc = "add_done_callback"
    /\ IF done(futures[caller.id])
       THEN /\ active_future' = 0
            /\ done_callbacks' = [done_callbacks EXCEPT ![caller.id] = "invoked"]
       ELSE /\ done_callbacks' = [done_callbacks EXCEPT ![caller.id] = "registered"]
            /\ UNCHANGED active_future
    /\ caller' = IdleCaller
    /\ UNCHANGED <<window, client, observed, cancel_event, futures, next_id, mgr, scan, units,
                   cache, now, loaded>>

\* Whether the scan loop of the running scan is consuming units.
in_evaluation_phase == mgr.pc = "loop"

\* stop(): set the cancellation event.  The handles not yet resolved and the
\* units in flight remember that a stop was requested.
Stop ==
    /\ cancel_event' = TRUE
    /\ futures' = [i \in ScanIds |->
                     IF futures[i].state \in {"pending", "running"}
                     THEN [futures[i] EXCEPT !.stop_called = TRUE]
                     ELSE futures[i]]
    /\ units' = [i \in DOMAIN units |->
                   IF in_evaluation_phase /\ units[i].state = "running"
                   THEN [units[i] EXCEPT !.in_flight_at_stop = TRUE]
                   ELSE units[i]]
    /\ scan' = [scan EXCEPT !.stopped_in_loop = @ \/ in_evaluation_phase]
    /\ UNCHANGED <<window, client, active_future, done_callbacks, next_id, caller,
                   mgr, cache, now, loaded>>

\* Future.cancel(): a handle still queued becomes cancelled, one that is
\* running or done is left as it is.
cancel(f) ==
    IF f.state = "pending"
    THEN [f EXCEPT !.state = "cancelled", !.result = "cancelled",
                   !.resolutions = @ + 1]
    ELSE f

\* shutdown(), up to the wait: the active handle, if any, is cancelled (its
\* done-callback then runs in the caller) and the manager executor is told to
\* shut down.  The handles queued or running remember the call.
Shutdown ==
    /\ caller.pc = "idle"
    /\ LET id == active_future
           cancelled == id # 0 /\ futures[id].state = "pending"
       IN /\ futures' = [i \in ScanIds |->
                           LET f == IF i = id THEN cancel(futures[i]) ELSE futures[i]
                           IN IF futures[i].state \in {"pending", "running"}
                              THEN [f EXCEPT !.shutdown_called = TRUE]
                              ELSE f]
          /\ IF cancelled /\ done_callbacks[id] = "registered"
             THEN /\ active_future' = 0
                  /\ done_callbacks' = [done_callbacks EXCEPT ![id] = "invoked"]
             ELSE UNCHANGED <<active_future, done_callbacks>>
    /\ mgr' = [mgr EXCEPT !.shutdown = TRUE]
    /\ caller' = [IdleCaller EXCEPT !.pc = "shutdown"]
    /\ UNCHANGED <<window, client, observed, cancel_event, next_id, scan, units, cache, now, loaded>>

\* (mutant) the join of the manager thread never comes back.
manager_never_joined == FALSE

\* The manager thread has ended: it is not in a work item and none is queued.
manager_joined ==
    mgr.pc = "idle" /\ \A i \in ScanIds : futures[i].state # "pending"

\* shutdown() returns: executor.shutdown(wait=True) has joined the manager
\* thread, which ends once it has run every work item queued.
ShutdownReturn ==
    /\ caller.pc = "shutdown"
    /\ manager_joined
    /\ caller' = IdleCaller
    /\ UNCHANGED <<window, client, observed, active_future, cancel_event, futures, done_callbacks,
                   next_id, mgr, scan, units, cache, now, loaded>>

\* ----------------------------------------------------------------- manager
\* (mutant) the manager executor has a second thread: max_workers=2.
manager_second_slot == TRUE

\* The single thread of the manager executor (max_workers=1) is free to take
\* the next work item.
manager_free == mgr.pc = "idle"

\* The manager thread takes the oldest pending handle and enters _run_scan:
\* total and the counters are set and the initial progress is emitted.  (The
\* record of stop() requests against handles already resolved is dropped.)
BeginScan ==
    /\ manager_free
    /\ \E id \in ScanIds :
         /\ futures[id].state = "pending"
         /\ \A j \in ScanIds : futures[j].state = "pending" => id <= j
         /\ futures' = [j \in ScanIds |->
                          IF j = id THEN [futures[j] EXCEPT !.state = "running"]
                          ELSE IF done(futures[j])
                          THEN [futures[j] EXCEPT !.stop_called = FALSE]
                          ELSE futures[j]]
         /\ \E raises \in callback_outcomes(client.on_progress) :
              LET entered == [NoScan EXCEPT !.symbols = futures[id].symbols,
                                            !.total = Len(futures[id].symbols)]
                  escaped == progress_exception(raises)
              IN /\ scan' = [entered EXCEPT
                               !.progress = emit_progress(client.on_progress, @,
                                                          ScanProgress(entered)),
                               !.progress_raised = IF raises THEN 1 ELSE 0,
                               !.raised = escaped]
                 /\ mgr' = [mgr EXCEPT !.pc = IF escaped # None THEN "exit"
                                              ELSE "load",
                                       !.id = id]
    /\ units' = <<>>
    /\ loaded' = NoLoad
    /\ UNCHANGED <<window, client, observed, active_future, cancel_event, done_callbacks, next_id,
                   caller, cache, now>>

\* _load_price_data for the scan's symbols, then the submission of one unit
\* per symbol to a new pool.  An empty symbol list leaves the loop at once.
LoadPrices ==
    /\ mgr.pc = "load"
    /\ \E fetched \in FetchResults(symbols_to_fetch(scan.symbols, cache, now)) :
         LET out == load_price_data(scan.symbols, cache, now, fetched) IN
         /\ scan' = [scan EXCEPT !.price_map = out.price_map,
                                 !.cache_hits = out.cache_hits,
                                 !.cache_misses = out.cache_misses]
         /\ cache' = out.cache
    /\ units' = [i \in 1..scan.total |-> QueuedUnit]
    /\ mgr' = [mgr EXCEPT !.pc = IF scan.total = 0 THEN "exit" ELSE "loop"]
    /\ UNCHANGED <<window, client, observed, active_future, cancel_event, futures, done_callbacks, next_id,
                   caller, now, loaded>>

\* _load_price_data raises: fetch_batch raises, or the cache does on its
\* index (is_stale reads it outside any try).  The loader makes such a call
\* for every symbol it is given; nothing catches the exception in
\* _load_price_data or _run_scan, which ends before any unit is submitted.
LoadPricesRaises ==
    /\ mgr.pc = "load"
    /\ scan.symbols # <<>>
    /\ scan' = [scan EXCEPT !.raised = "load_error"]
    /\ mgr' = [mgr EXCEPT !.pc = "exit"]
    /\ UNCHANGED <<window, client, observed, active_future, cancel_event, futures, done_callbacks, next_id,
                   caller, units, cache, now, loaded>>


\* ----------------------------------------------------------------- workers
\* (mutant) _process does not look at the price data.
process_entry_without_data(cancelled, price_df) ==
    IF cancelled THEN "cancelled" ELSE "evaluate"

\* The head of _process: "cancelled" when the event is set, "missing" when
\* price_map holds nothing for the symbol, else the unit goes on to the
\* fundamentals provider and the scenario.
process_entry(cancelled, price_df) ==
    IF cancelled THEN "cancelled"
    ELSE IF price_df = None \/ price_df = EmptyFrame THEN "missing"
    ELSE "evaluate"

\* Units a worker thread is executing.
running_units == {i \in DOMAIN units : units[i].state = "running"}

\* The per-scan pool exists from the submission until the with block is left.
pool_alive == mgr.pc \in {"loop", "exit"}

\* A worker takes the oldest queued unit and runs the head of _process.
StartUnit(i) ==
    /\ pool_alive
    /\ units[i].state = "queued"
    /\ \A j \in DOMAIN units : j < i => units[j].state # "queued"
    /\ Cardinality(running_units) < max_workers
    /\ LET entry == process_entry(cancel_event, scan.price_map[scan.symbols[i]]) IN
       units' = [units EXCEPT ![i] =
                   IF entry = "evaluate"
                   THEN [@ EXCEPT !.state = "running", !.evaluated = TRUE,
                                  !.started_after_stop = scan.stopped_in_loop]
                   ELSE [@ EXCEPT !.state = "done", !.error = entry]]
    /\ UNCHANGED <<window, client, observed, active_future, cancel_event, futures, done_callbacks, next_id,
                   caller, mgr, scan, cache, now, loaded>>

\* The fundamentals provider raises: _process does not catch it, the unit's
\* future holds the exception.
ProviderRaises(i) ==
    /\ pool_alive
    /\ units[i].state = "running"
    /\ units' = [units EXCEPT ![i].state = "done", ![i].result = "exception"]
    /\ UNCHANGED <<window, client, observed, active_future, cancel_event, futures, done_callbacks, next_id,
                   caller, mgr, scan, cache, now, loaded>>

\* scenario.evaluate returns: a result or signals ("match"), or neither.
EvaluateReturns(i, result) ==
    /\ pool_alive
    /\ units[i].state = "running"
    /\ units' = [units EXCEPT ![i].state = "done", ![i].result = result]
    /\ UNCHANGED <<window, client, observed, active_future, cancel_event, futures, done_callbacks, next_id,
                   caller, mgr, scan, cache, now, loaded>>

\* scenario.evaluate raises: _process returns str(exc) as the unit's error.
EvaluateRaises(i, message) ==
    /\ pool_alive
    /\ units[i].state = "running"
    /\ units' = [units EXCEPT ![i].state = "done", ![i].error = message]
    /\ scan' = [scan EXCEPT !.evaluate_raised = @ + 1]
    /\ UNCHANGED <<window, client, observed, active_future, cancel_event, futures, done_callbacks, next_id,
                   caller, mgr, cache, now, loaded>>

\* --------------------------------------------------------------- scan loop
\* (mutant) the update of the counters is lost.
count_unit_lost(sc, u) == sc

\* (mutant) the loop hands every tuple without an error to on_result.
count_unit_delivers_unmatched(sc, u) ==
    IF u.error # None
    THEN IF u.error = "missing" THEN [sc EXCEPT !.skipped = @ + 1]
         ELSE IF u.error = "cancelled" THEN [sc EXCEPT !.skipped = @ + 1]
         ELSE [sc EXCEPT !.errors = @ + 1]
    ELSE [sc EXCEPT !.delivered = @ + 1]

\* The branches of the loop body on one unit's tuple: which counter moves,
\* or that on_result is called.
count_unit(sc, u) ==
    IF u.error # None
    THEN IF u.error = "missing" THEN [sc EXCEPT !.skipped = @ + 1]
         ELSE IF u.error = "cancelled" THEN [sc EXCEPT !.skipped = @ + 1]
         ELSE [sc EXCEPT !.errors = @ + 1]
    ELSE IF u.result = "none" THEN [sc EXCEPT !.skipped = @ + 1]
         ELSE [sc EXCEPT !.delivered = @ + 1]

\* Whether the loop body calls on_result for the unit.
calls_on_result(u) == u.error = None /\ u.result = "match"

\* (mutant) the loop breaks after its first unit whatever the event says.
loop_ends_always(i, cancelled) == TRUE

\* The loop leaves as_completed after this unit: the event is set (break) or
\* no unit is left.
loop_ends(i, cancelled) ==
    cancelled \/ \A j \in DOMAIN units : j # i => units[j].state = "consumed"

\* One iteration of the for loop over as_completed: future.result(), the
\* counters, on_result, processed, the progress callback, the cancel test.
\* An exception of future.result() or of on_result leaves the loop and the
\* function.
ConsumeUnit(i) ==
    /\ mgr.pc = "loop"
    /\ units[i].state = "done"
    /\ \/ /\ units[i].result = "exception"
          /\ scan' = [scan EXCEPT !.raised = "provider_error"]
          /\ units' = [units EXCEPT ![i] = ConsumedUnit]
          /\ mgr' = [mgr EXCEPT !.pc = "exit"]
       \/ /\ calls_on_result(units[i])
          /\ scan' = [count_unit(scan, units[i]) EXCEPT
                        !.raised = "callback_error", !.on_result_raised = TRUE]
          /\ units' = [units EXCEPT ![i] = ConsumedUnit]
          /\ mgr' = [mgr EXCEPT !.pc = "exit"]
       \/ /\ units[i].result # "exception"
          /\ \E raises \in callback_outcomes(client.on_progress) :
               LET counted == [count_unit(scan, units[i]) EXCEPT !.processed = @ + 1]
                   escaped == progress_exception(raises)
               IN /\ scan' = [counted EXCEPT
                                !.progress = emit_progress(client.on_progress, @,
                                                           ScanProgress(counted)),
                                !.progress_raised = @ + IF raises THEN 1 ELSE 0,
                                !.raised = escaped]
                  /\ mgr' = [mgr EXCEPT !.pc = IF escaped # None
                                                  \/ loop_ends(i, cancel_event)
                                               THEN "exit" ELSE "loop"]
          /\ units' = [units EXCEPT ![i] = ConsumedUnit]
    /\ UNCHANGED <<window, client, observed, active_future, cancel_event, futures, done_callbacks, next_id,
                   caller, cache, now, loaded>>

\* (mutant) the pool is shut down without waiting: shutdown(wait=False).
pool_not_awaited == TRUE

\* Leaving the with block waits for every unit submitted (shutdown(wait=True)).
pool_drained == \A i \in DOMAIN units : units[i].state \in {"done", "consumed"}

\* The with block is left, _run_scan returns its summary or raises, and the
\* manager executor sets the handle's result or exception.
Resolve ==
    /\ mgr.pc = "exit"
    /\ pool_drained
    /\ futures' = [futures EXCEPT ![mgr.id].state = "finished",
                                  ![mgr.id].result = IF scan.raised # None
                                                     THEN "exception"
                                                     ELSE "summary",
                                  ![mgr.id].resolutions = @ + 1]
    /\ mgr' = [mgr EXCEPT !.pc = "callbacks"]
    /\ UNCHANGED <<window, client, observed, active_future, cancel_event, done_callbacks, next_id,
                   caller, scan, units, cache, now, loaded>>

\* Future._invoke_callbacks, still on the manager thread: _clear_active, if
\* start() had registered it by then, sets the active handle to None.
InvokeCallbacks ==
    /\ mgr.pc = "callbacks"
    /\ IF done_callbacks[mgr.id] = "registered"
       THEN /\ active_future' = 0
            /\ done_callbacks' = [done_callbacks EXCEPT ![mgr.id] = "invoked"]
       ELSE UNCHANGED <<active_future, done_callbacks>>
    /\ mgr' = [mgr EXCEPT !.pc = "idle"]
    /\ UNCHANGED <<window, client, observed, cancel_event, futures, next_id, caller, scan,
                   units, cache, now, loaded>>

\* ----------------------------------------------------------- specification
Caller ==
    \/ StartBusy("instance")
    \/ \E n \in 0..MaxSyms :
         StartAccepted("instance", RawList(n)) /\ UNCHANGED observed
    \/ AddDoneCallback
    \/ Stop /\ UNCHANGED observed

Manager ==
    \/ BeginScan
    \/ LoadPrices
    \/ LoadPricesRaises
    \/ \E i \in DOMAIN units : ConsumeUnit(i)
    \/ Resolve
    \/ InvokeCallbacks

Workers ==
    \E i \in DOMAIN units :
        \/ StartUnit(i)
        \/ ProviderRaises(i)
        \/ \E result \in {"none", "match"} : EvaluateReturns(i, result)
        \/ \E message \in ExcMessages : EvaluateRaises(i, message)

Next == Caller \/ Manager \/ Workers

Spec == Init /\ [][Next]_vars


\* ------------------------------------------------- every call of the caller
InitCalls == InitFor(ClosingClient)

\* The caller passes any strategy and may shut the runner down.
CallerCalls ==
    \/ \E strategy \in Strategies :
         \/ StartUnknownStrategy(strategy)
         \/ StartBusy(strategy)
         \/ StartAfterShutdown(strategy)
         \/ \E n \in 0..MaxSyms :
              StartAccepted(strategy, RawList(n)) /\ UNCHANGED observed
    \/ AddDoneCallback
    \/ Stop /\ UNCHANGED observed
    \/ Shutdown
    \/ ShutdownReturn

NextCalls == CallerCalls \/ Manager \/ Workers

SpecCalls == InitCalls /\ [][NextCalls]_vars

\* ------------------------------------------- scans with a progress callback
InitProgress == InitFor(ProgressClient)

SpecProgress == InitProgress /\ [][Next]_vars

\* ----------------------------------------------------- normalisation alone
InitNormalise == InitFor(OneScanClient)

\* start() with any raw symbol list, up to the entry of _run_scan, where
\* total is taken from the list start() normalised.
NextNormalise ==
    \/ \E symbols \in RawInputs :
         StartAccepted("instance", symbols) /\ UNCHANGED observed
    \/ AddDoneCallback
    \/ BeginScan

SpecNormalise == InitNormalise /\ [][NextNormalise]_vars

\* ------------------------------------------------- price resolution alone
\* The runner's price resolution on its own, over every cache it may find.
InitLoader ==
    /\ active_future = 0
    /\ cancel_event = FALSE
    /\ futures = [i \in ScanIds |-> NoFuture]
    /\ done_callbacks = [i \in ScanIds |-> "none"]
    /\ next_id = 0
    /\ caller = IdleCaller
    /\ mgr = [pc |-> "idle", id |-> 0, shutdown |-> FALSE]
    /\ scan = NoScan
    /\ units = <<>>
    /\ cache \in InitialCaches
    /\ now = ttl_days + 1
    /\ loaded = NoLoad
    /\ client = PlainClient
    /\ window = NoWindow
    /\ observed = NoObservation

\* _load_price_data for the normalised symbols of one scan; loaded keeps the
\* cache it found, the time, what fetch_batch was asked and returned, and the
\* result.
LoaderRun(n) ==
    LET symbols == normalise_symbols(RawList(n)) IN
    \E fetched \in FetchResults(symbols_to_fetch(symbols, cache, now)) :
      LET out == load_price_data(symbols, cache, now, fetched) IN
      /\ cache' = out.cache
      /\ loaded' = [cache_before |-> cache, at |-> now, symbols |-> symbols,
                    fetched |-> fetched, fetch_calls |-> out.fetch_calls,
                    price_map |-> out.price_map, cache_hits |-> out.cache_hits,
                    cache_misses |-> out.cache_misses, set_calls |-> out.set_calls]
      /\ UNCHANGED <<window, client, observed, active_future, cancel_event, futures, done_callbacks,
                     next_id, caller, mgr, scan, units, now>>

\* Time passes: more than ttl_days, so that what was fresh is stale.
AdvanceClock ==
    /\ now < (MaxClockJumps + 1) * (ttl_days + 1)
    /\ now' = now + ttl_days + 1
    /\ UNCHANGED <<window, client, observed, active_future, cancel_event, futures, done_callbacks,
                   next_id, caller, mgr, scan, units, cache, loaded>>

NextLoader == (\E n \in 0..MaxSyms : LoaderRun(n)) \/ AdvanceClock

SpecLoader == InitLoader /\ [][NextLoader]_vars

\* ------------------------------------------------------------------ claims
\* The handle of the latest scan has resolved: scan and units are its.
resolved == mgr.id # 0 /\ done(futures[mgr.id])

\* The latest scan's handle resolved with a ScanSummary.
resolved_with_summary == resolved /\ futures[mgr.id].result = "summary"

\* stop() was called between the latest scan's start() and its resolution.
stop_requested == mgr.id # 0 /\ futures[mgr.id].stop_called

\* Handles submitted and not yet resolved (queued or running).
unresolved == {i \in ScanIds : futures[i].state \in {"pending", "running"}}

\* C1: a scan over N symbols with no stop() and no exception of a callback or
\* of the provider resolves with processed = N, and skipped + errors + the
\* number of symbols delivered to on_result = N.
C1_AccountingComplete ==
    (resolved_with_summary /\ ~stop_requested) =>
        /\ scan.total = Len(futures[mgr.id].symbols)
        /\ scan.processed = scan.total
        /\ scan.skipped + scan.errors + scan.delivered = scan.total

\* C1 witness: a full scan of two symbols, one delivered and one in error.
C1_Witness ==
    /\ resolved_with_summary /\ ~stop_requested
    /\ scan.total = 2 /\ scan.delivered = 1 /\ scan.errors = 1

\* C2: while a started scan's handle has not resolved, start() is refused, so
\* there is never a second scan queued or running beside an unresolved one.
C2_NoSecondScanQueued == Cardinality(unresolved) <= 1

\* C3: a scan that was asked to stop, and whose price loading and units of
\* work ended without an exception of their own, resolves with a summary,
\* and processed <= total.
C3_StopYieldsSummary ==
    (resolved /\ stop_requested
       /\ scan.raised \notin {"load_error", "provider_error"}) =>
        /\ futures[mgr.id].result = "summary"
        /\ scan.processed <= scan.total

\* C4: when on_result raises, the exception is contained: the handle resolves
\* with a summary and, without a stop(), every symbol is still processed.
C4_OnResultContained ==
    (resolved /\ scan.on_result_raised) =>
        /\ futures[mgr.id].result = "summary"
        /\ (~stop_requested => scan.processed = scan.total)

\* C5: in a scan that ran to its summary without a stop(), the errors counter
\* is the number of symbols whose scenario.evaluate raised.
C5_EvaluateErrorsCounted ==
    (resolved_with_summary /\ ~stop_requested) =>
        scan.errors = scan.evaluate_raised

\* C6: every unit that was in flight when stop() was called during the
\* evaluation phase has been counted by the time the summary is returned.
C6_InFlightCounted ==
    resolved_with_summary =>
        \A i \in DOMAIN units : ~units[i].in_flight_at_stop

\* C7: no unit starts its evaluation (provider, scenario) after stop() was
\* called during the evaluation phase of its scan.
C7_NoEvaluateAfterStop ==
    \A i \in DOMAIN units : ~units[i].started_after_stop

\* C8: a handle resolves once, and when it has resolved no unit of its scan
\* is queued or running.
C8_ResolvedOnceAndDrained ==
    /\ \A id \in ScanIds : futures[id].resolutions <= 1
    /\ \A id \in ScanIds : done(futures[id]) => futures[id].resolutions = 1
    /\ resolved => \A i \in DOMAIN units : units[i].state \in {"done", "consumed"}

\* C8 witness: a scan cut short by stop() has resolved, with a unit that ran
\* to its end and was not consumed.
C8_Witness ==
    /\ resolved_with_summary /\ stop_requested
    /\ scan.processed < scan.total
    /\ \E i \in DOMAIN units : units[i].state = "done" /\ units[i].error = None


\* The entry was fresh when the latest price resolution read it: a non-empty
\* series whose metadata is not older than ttl_days.
was_fresh(k) ==
    LET e == loaded.cache_before[k] IN
    /\ e.df \in Series
    /\ e.indexed
    /\ loaded.at - e.updated_at <= ttl_days

\* The entry held a series that was stale when the latest resolution read it.
was_stale(k) == loaded.cache_before[k].df \in Series /\ ~was_fresh(k)

\* fetch_batch returned nothing usable for the symbol.
fetch_failed(k) ==
    k \in DOMAIN loaded.fetched /\ loaded.fetched[k] \in {None, EmptyFrame}

\* C9: fetch_batch is called at most once, with exactly the symbols that had
\* no fresh entry (in order), and not at all when all were fresh; a fresh
\* entry is served from the cache and counted as a hit.
C9_FetchOnlyWhatIsNotFresh ==
    LET not_fresh == SelectSeq(loaded.symbols, LAMBDA k : ~was_fresh(k)) IN
    /\ Len(loaded.fetch_calls) <= 1
    /\ (not_fresh = <<>>) => loaded.fetch_calls = <<>>
    /\ (not_fresh # <<>>) => loaded.fetch_calls = <<not_fresh>>
    /\ \A k \in Range(loaded.symbols) :
         was_fresh(k) => loaded.price_map[k] = loaded.cache_before[k].df
    /\ loaded.cache_hits = Cardinality({k \in Range(loaded.symbols) : was_fresh(k)})

\* C9 witness: of two symbols one was fresh and only the other was fetched.
C9_Witness ==
    /\ Len(loaded.symbols) = 2
    /\ was_fresh(loaded.symbols[1]) /\ ~was_fresh(loaded.symbols[2])
    /\ loaded.fetch_calls = <<<<loaded.symbols[2]>>>>
    /\ loaded.cache_hits = 1

\* C10: a symbol whose entry was stale and whose fetch failed is resolved to
\* the stale series, and is counted neither as a hit nor as a miss: the hits
\* are the fresh symbols, the misses the symbols fetched with data.
C10_StaleFallback ==
    /\ \A k \in Range(loaded.symbols) :
         (was_stale(k) /\ fetch_failed(k)) =>
             loaded.price_map[k] = loaded.cache_before[k].df
    /\ loaded.cache_hits = Cardinality({k \in Range(loaded.symbols) : was_fresh(k)})
    /\ loaded.cache_misses =
         Cardinality({k \in Range(loaded.symbols) :
                        k \in DOMAIN loaded.fetched /\ loaded.fetched[k] \in Series})

\* C10 witness: a stale entry, a fetch that returned nothing for it, and the
\* stale series in the result, with no hit and no miss.
C10_Witness ==
    \E k \in Range(loaded.symbols) :
        /\ was_stale(k) /\ loaded.fetched[k] = None
        /\ loaded.price_map[k] = "old"
        /\ loaded.cache_hits = 0 /\ loaded.cache_misses = 0

\* Handles whose _run_scan is executing.
executing == {i \in ScanIds : futures[i].state = "running"}

\* C11: a failure of the fetch or of the cache during price resolution does
\* not abort the scan: the handle resolves with a summary and, without a
\* stop(), every symbol is processed (on stale data or as skipped).
C11_LoadFailureAbsorbed ==
    (resolved /\ scan.raised = "load_error") =>
        /\ futures[mgr.id].result = "summary"
        /\ (~stop_requested => scan.processed = scan.total)

\* C12: at most one _run_scan body executes at any moment.
C12_OneScanBodyAtATime == Cardinality(executing) <= 1

\* C12 witness: a second scan was accepted and waits in the manager's queue
\* while the first one's body is executing.
C12_Witness ==
    /\ Cardinality(executing) = 1
    /\ \E i \in ScanIds : futures[i].state = "pending"
    /\ mgr.pc = "loop"

\* The key of each raw symbol: symbol.strip().upper().
keys_of(symbols) == [i \in DOMAIN symbols |-> upper(strip(symbols[i]))]

\* Where a key first occurs among the keys of the raw list.
first_occurrence(ks, key) ==
    CHOOSE i \in DOMAIN ks : ks[i] = key /\ \A j \in 1..(i - 1) : ks[j] # key

\* C13: the list start() hands to the scan has no duplicate and no empty key,
\* holds exactly the non-empty keys of the raw list in the order of their
\* first occurrence, is left as it is by a second normalisation, and the
\* scan's total is its length.
C13_NormalisedSymbols ==
    /\ \A id \in ScanIds : futures[id].state # "new" =>
         LET out == futures[id].symbols
             ks == keys_of(futures[id].raw)
         IN /\ out = normalise_symbols(futures[id].raw)
            /\ \A i, j \in DOMAIN out : i # j => out[i] # out[j]
            /\ \A i \in DOMAIN out : out[i] # <<>> /\ strip(out[i]) = out[i]
            /\ Range(out) = Range(ks) \ {<<>>}
            /\ \A i, j \in DOMAIN out :
                 i < j => first_occurrence(ks, out[i]) < first_occurrence(ks, out[j])
            /\ normalise_symbols(out) = out
    /\ (mgr.id # 0 /\ mgr.pc = "load") =>
         scan.total = Len(normalise_symbols(futures[mgr.id].raw))

\* C13 witness: a raw list with a padded lower-case ticker, a blank entry and
\* the same ticker in upper case has become a scan of one symbol.
C13_Witness ==
    /\ mgr.id # 0 /\ mgr.pc = "load"
    /\ futures[mgr.id].raw = << <<" ", "b", " ">>, <<" ">>, <<"B">> >>
    /\ futures[mgr.id].symbols = << <<"B">> >>
    /\ scan.total = 1

\* The program's own state: everything but the caller's position, the clock,
\* the client and the record of the latest price resolution.
runner_state == <<active_future, cancel_event, futures, done_callbacks,
                  next_id, mgr, scan, units, cache>>

\* C14: start() with an unknown strategy identifier raises ValueError before
\* any work starts: no handle is ever submitted for such a strategy, and the
\* call leaves the active handle, the cancellation flag, the handles, the
\* scan and its units as they were.
C14_UnknownStrategyRejected ==
    /\ [](\A id \in ScanIds :
            futures[id].state # "new" =>
                futures[id].strategy \in SCENARIO_REGISTRY \cup {"instance"})
    /\ [][(caller' # caller /\ caller'.raised = "ValueError")
             => UNCHANGED runner_state]_vars

\* C14 witness: start() raised ValueError while a scan asked to stop is
\* running; the flag is still set and the scan still the active one.
C14_Witness ==
    /\ caller.raised = "ValueError"
    /\ cancel_event /\ scan_active
    /\ mgr.pc = "loop"

\* C17: a handle that was queued or running when shutdown() was called ends
\* in the cancelled state.
C17_ShutdownCancelsActive ==
    \A id \in ScanIds :
        (futures[id].shutdown_called /\ done(futures[id])) =>
            futures[id].state = "cancelled"

\* C18: shutdown() comes back in every situation (while it waits, the manager
\* or a worker can always move, or it can return), and a shutdown() called
\* after one that has returned changes nothing.
C18_ShutdownSafeAndIdempotent ==
    /\ [](caller.pc = "shutdown" =>
            ENABLED (ShutdownReturn \/ Manager \/ Workers))
    /\ [][(mgr.shutdown /\ caller.pc = "idle" /\ caller'.pc = "shutdown")
             => UNCHANGED runner_state]_vars

\* C18 witness: shutdown() has returned after a scan that was asked to stop
\* and failed.
C18_Witness ==
    /\ mgr.shutdown /\ caller.pc = "idle"
    /\ mgr.id # 0 /\ futures[mgr.id].result = "exception"
    /\ futures[mgr.id].shutdown_called /\ futures[mgr.id].stop_called

\* C15: the snapshots on_progress receives in one scan start with
\* (total, 0, 0, 0), the only one emitted when price resolution begins; each
\* later one has the same total, processed one greater than the one before,
\* skipped and errors not smaller, and skipped + errors <= processed <= total.
C15_ProgressSequence ==
    LET log == scan.progress IN
    mgr.id # 0 =>
        /\ Len(log) >= 1
        /\ log[1] = [total |-> Len(futures[mgr.id].symbols), processed |-> 0,
                     skipped |-> 0, errors |-> 0]
        /\ mgr.pc = "load" => Len(log) = 1
        /\ \A i \in 2..Len(log) :
             /\ log[i].total = log[1].total
             /\ log[i].processed = log[i - 1].processed + 1
             /\ log[i].skipped >= log[i - 1].skipped
             /\ log[i].errors >= log[i - 1].errors
             /\ log[i].skipped + log[i].errors <= log[i].processed
             /\ log[i].processed <= log[i].total

\* C15 witness: a scan of two symbols has resolved after three snapshots, the
\* last one with one symbol skipped and one in error.
C15_Witness ==
    /\ resolved_with_summary
    /\ Len(scan.progress) = 3
    /\ scan.progress[3] = [total |-> 2, processed |-> 2, skipped |-> 1, errors |-> 1]

\* C16: an exception of on_progress never becomes the scan's; a scan whose
\* callback raised, and in which nothing else did, resolves with a summary,
\* has emitted a snapshot for the entry and for every unit counted, the last
\* one equal to its counters, and without a stop() has processed every symbol.
C16_ProgressExceptionAbsorbed ==
    /\ scan.raised # "progress_error"
    /\ (resolved /\ scan.progress_raised > 0 /\ scan.raised = None) =>
         /\ futures[mgr.id].result = "summary"
         /\ Len(scan.progress) = scan.processed + 1
         /\ scan.progress[Len(scan.progress)] = ScanProgress(scan)
         /\ ~stop_requested =>
              /\ scan.processed = scan.total
              /\ scan.skipped + scan.errors + scan.delivered = scan.total

\* C16 witness: on_progress raised at the entry and after each of two units,
\* and the scan resolved with a summary of two processed symbols.
C16_Witness ==
    /\ resolved_with_summary /\ ~stop_requested
    /\ scan.progress_raised = 3
    /\ scan.total = 2 /\ scan.processed = 2 /\ scan.delivered = 1

\* ---------------------------------------------------------- the cache alone
\* A cache over an empty directory; nothing was stored or read yet.
InitCache ==
    /\ active_future = 0
    /\ cancel_event = FALSE
    /\ futures = [i \in ScanIds |-> NoFuture]
    /\ done_callbacks = [i \in ScanIds |-> "none"]
    /\ next_id = 0
    /\ caller = IdleCaller
    /\ mgr = [pc |-> "idle", id |-> 0, shutdown |-> FALSE]
    /\ scan = NoScan
    /\ units = <<>>
    /\ cache = [k \in Keys |-> AbsentEntry]
    /\ now = ttl_days + 1
    /\ loaded = NoLoad
    /\ client = PlainClient
    /\ window = NoWindow
    /\ observed = [op |-> None, key |-> None, given |-> None,
                   prior |-> AbsentEntry, written |-> FALSE, got |-> None,
                   raised |-> None]

\* Cache.set when to_parquet raises: the error is logged and set returns
\* before the index is touched; the file is as it was, or cut short.
cache_set_failed(c, symbol, df, file_touched) ==
    IF df = None \/ df = EmptyFrame THEN c
    ELSE IF file_touched THEN [c EXCEPT ![symbol].df = Unreadable]
    ELSE c

\* cache.set(symbol, period, df) followed at once by cache.get(symbol,
\* period); the observer notes the entry found, the frame given, whether
\* the write went through, and the frame returned.
SetThenGet(symbol, df) ==
    /\ \E write \in {"written", "failed", "failed_midway"} :
         /\ cache' = IF write = "written"
                     THEN cache_set(cache, symbol, df, now)
                     ELSE cache_set_failed(cache, symbol, df,
                                           write = "failed_midway")
         /\ observed' = [op |-> "set", key |-> symbol, given |-> df,
                         prior |-> cache[symbol],
                         written |-> write = "written",
                         got |-> cache_get(cache', symbol), raised |-> None]
    /\ UNCHANGED <<window, client, active_future, cancel_event, futures, done_callbacks,
                   next_id, caller, mgr, scan, units, now, loaded>>

\* The series the writer stores: one as the fetcher delivers it, one with a
\* timezone-aware index.
WrittenFrames == {"new", "new_tz"}

\* cache.get(symbol, period) when pd.read_parquet raises on a file that is
\* there: the error is logged and get returns None.
GetReadFails(symbol) ==
    /\ cache[symbol].df # None
    /\ observed' = [op |-> "get", key |-> symbol, given |-> None,
                    prior |-> cache[symbol], written |-> FALSE, got |-> None,
                    raised |-> None]
    /\ UNCHANGED <<window, client, active_future, cancel_event, futures, done_callbacks,
                   next_id, caller, mgr, scan, units, cache, now, loaded>>

\* cache.set(symbol, period, df) when the file is written and the index
\* cannot be: _upsert_metadata has no except clause, the sqlite3 error
\* leaves set.
SetIndexFails(symbol, df) ==
    /\ df \notin {None, EmptyFrame}
    /\ cache' = [cache EXCEPT ![symbol].df = parquet(to_store(df))]
    /\ observed' = [op |-> "set", key |-> symbol, given |-> df,
                    prior |-> cache[symbol], written |-> TRUE,
                    got |-> None, raised |-> "sqlite3.Error"]
    /\ UNCHANGED <<window, client, active_future, cancel_event, futures, done_callbacks,
                   next_id, caller, mgr, scan, units, now, loaded>>

\* cache.is_stale(symbol, period) when the index cannot be read:
\* _read_metadata has no except clause, the sqlite3 error leaves is_stale.
IsStaleIndexFails(symbol) ==
    /\ observed' = [op |-> "is_stale", key |-> symbol, given |-> None,
                    prior |-> cache[symbol], written |-> FALSE, got |-> None,
                    raised |-> "sqlite3.Error"]
    /\ UNCHANGED <<window, client, active_future, cancel_event, futures, done_callbacks,
                   next_id, caller, mgr, scan, units, cache, now, loaded>>

NextCache ==
    \/ \E symbol \in Keys, df \in DOMAIN Frames \cup {EmptyFrame} :
         SetThenGet(symbol, df)
    \/ \E symbol \in Keys : GetReadFails(symbol)
    \/ \E symbol \in Keys, df \in WrittenFrames : SetIndexFails(symbol, df)
    \/ \E symbol \in Keys : IsStaleIndexFails(symbol)
    \/ AdvanceClock

SpecCache == InitCache /\ [][NextCache]_vars

\* -------------------------------------------------------- staleness alone
\* The ttl arguments of is_stale, in days.
TtlArgs == 0..MaxTtl

\* A cache over any directory; is_stale was not called yet.
InitStale ==
    /\ active_future = 0
    /\ cancel_event = FALSE
    /\ futures = [i \in ScanIds |-> NoFuture]
    /\ done_callbacks = [i \in ScanIds |-> "none"]
    /\ next_id = 0
    /\ caller = IdleCaller
    /\ mgr = [pc |-> "idle", id |-> 0, shutdown |-> FALSE]
    /\ scan = NoScan
    /\ units = <<>>
    /\ cache \in InitialCaches
    /\ now = ttl_days + 1
    /\ loaded = NoLoad
    /\ client = PlainClient
    /\ window = NoWindow
    /\ observed = [key |-> None, entry |-> AbsentEntry, at |-> 0,
                   stale |-> [ttl \in TtlArgs |-> TRUE],
                   stale_by_default |-> TRUE]

\* cache.is_stale(symbol, period, ttl) called at one instant with every ttl
\* and without one; the observer notes the entry, the instant and each answer.
IsStale(symbol) ==
    /\ observed' = [key |-> symbol, entry |-> cache[symbol], at |-> now,
                    stale |-> [ttl \in TtlArgs |->
                                 is_stale(cache, symbol, now, ttl)],
                    stale_by_default |-> cache_is_stale(cache, symbol, now)]
    /\ UNCHANGED <<window, client, active_future, cancel_event, futures, done_callbacks,
                   next_id, caller, mgr, scan, units, cache, now, loaded>>

\* cache.set(symbol, period, df) with a series that is not empty.
SetEntry(symbol) ==
    /\ cache' = cache_set(cache, symbol, "new", now)
    /\ UNCHANGED <<window, client, observed, active_future, cancel_event, futures,
                   done_callbacks, next_id, caller, mgr, scan, units, now,
                   loaded>>

NextStale ==
    \/ \E symbol \in Keys : IsStale(symbol)
    \/ \E symbol \in Keys : SetEntry(symbol)
    \/ AdvanceClock

SpecStale == InitStale /\ [][NextStale]_vars

\* ------------------------------------------- a reader beside a running set
\* The thread inside Cache.set: where it is, and what it was called with.
IdleWriter == [pc |-> "idle", key |-> None, df |-> None, prior |-> AbsentEntry]

\* A cache holding a fresh series or nothing per key; one thread will call
\* set, another get.
InitSet ==
    /\ active_future = 0
    /\ cancel_event = FALSE
    /\ futures = [i \in ScanIds |-> NoFuture]
    /\ done_callbacks = [i \in ScanIds |-> "none"]
    /\ next_id = 0
    /\ caller = IdleWriter
    /\ mgr = [pc |-> "idle", id |-> 0, shutdown |-> FALSE]
    /\ scan = NoScan
    /\ units = <<>>
    /\ cache \in [Keys -> {AbsentEntry, Entry("old", ttl_days + 1)}]
    /\ now = ttl_days + 1
    /\ loaded = NoLoad
    /\ client = PlainClient
    /\ window = NoWindow
    /\ observed = [key |-> None, got |-> None, writer |-> IdleWriter]

\* Cache.set up to the moment to_parquet has opened the file of the key for
\* writing: what the file held is gone and the new content is not there yet.
SetOpensFile(symbol, df) ==
    /\ caller.pc = "idle"
    /\ caller' = [pc |-> "to_parquet", key |-> symbol, df |-> df,
                  prior |-> cache[symbol]]
    /\ cache' = [cache EXCEPT ![symbol].df = Unreadable]
    /\ UNCHANGED <<window, client, observed, active_future, cancel_event, futures,
                   done_callbacks, next_id, mgr, scan, units, now, loaded>>

\* to_parquet returns: the file is complete.
SetFileWritten ==
    /\ caller.pc = "to_parquet"
    /\ caller' = [caller EXCEPT !.pc = "upsert_metadata"]
    /\ cache' = [cache EXCEPT ![caller.key].df = parquet(to_store(caller.df))]
    /\ UNCHANGED <<window, client, observed, active_future, cancel_event, futures,
                   done_callbacks, next_id, mgr, scan, units, now, loaded>>

\* _upsert_metadata commits the row of the key; set returns.
SetIndexed ==
    /\ caller.pc = "upsert_metadata"
    /\ caller' = IdleWriter
    /\ cache' = [cache EXCEPT ![caller.key].indexed = TRUE,
                              ![caller.key].updated_at = now]
    /\ UNCHANGED <<window, client, observed, active_future, cancel_event, futures,
                   done_callbacks, next_id, mgr, scan, units, now, loaded>>

\* Another thread calls cache.get(symbol, period); the observer notes what it
\* got and where the writer was.
ReaderGets(symbol) ==
    /\ observed' = [key |-> symbol, got |-> cache_get(cache, symbol),
                    writer |-> caller]
    /\ UNCHANGED <<window, client, active_future, cancel_event, futures, done_callbacks,
                   next_id, caller, mgr, scan, units, cache, now, loaded>>

NextSet ==
    \/ \E symbol \in Keys, df \in WrittenFrames : SetOpensFile(symbol, df)
    \/ SetFileWritten
    \/ SetIndexed
    \/ \E symbol \in Keys : ReaderGets(symbol)

SpecSet == InitSet /\ [][NextSet]_vars

\* ------------------------------------------------- the cache with its clear
\* Here the cache is seen as Cache keeps it: parquet files by path, and the
\* rows of cache_index by (symbol, period) as passed by the caller.
ClearSymbols == {<<"A">>, <<"a">>, <<"B">>}
Periods == {"1y", "5y"}
IndexKeys == ClearSymbols \X Periods

\* _sanitize_symbol: "/" becomes "-", then upper case.
sanitize_symbol(symbol) ==
    upper([i \in DOMAIN symbol |-> IF symbol[i] = "/" THEN "-" ELSE symbol[i]])

\* Cache._path_for: the file of a key is named by the sanitised symbol.
path_for(symbol, period) == <<sanitize_symbol(symbol), period>>

FilePaths == {path_for(k[1], k[2]) : k \in IndexKeys}

\* No row in cache_index.
NoRow == [present |-> FALSE, updated_at |-> 0]

\* The cache over an empty directory.
EmptyStore ==
    [files |-> [f \in FilePaths |-> None], index |-> [k \in IndexKeys |-> NoRow]]

\* Cache.get: reads the file of the key, whatever the index says.
store_get(st, symbol, period) ==
    LET df == st.files[path_for(symbol, period)]
    IN IF df \in {None, Unreadable, EmptyFrame} THEN None
       ELSE restore_index_frequency(df)

\* Cache.set: writes the file of the key, then upserts the row of the key.
store_set(st, symbol, period, df, t) ==
    IF df = None \/ df = EmptyFrame THEN st
    ELSE [files |-> [st.files EXCEPT ![path_for(symbol, period)] =
                                        parquet(to_store(df))],
          index |-> [st.index EXCEPT ![<<symbol, period>>] =
                                        [present |-> TRUE, updated_at |-> t]]]

\* Whether a row is selected: it exists and, with a cutoff (a one-element
\* sequence), is older than it.
row_selected(row, older_than) ==
    row.present /\ (older_than = <<>> \/ row.updated_at < older_than[1])

\* Cache._remove_symbol: the periods of the symbol's selected rows; each
\* one's file is unlinked and counted if it exists; then the rows are deleted.
remove_symbol(st, symbol, older_than) ==
    LET periods == {p \in Periods :
                       row_selected(st.index[<<symbol, p>>], older_than)}
        unlinked == {f \in {path_for(symbol, p) : p \in periods} :
                        st.files[f] # None}
    IN [store |-> [files |-> [f \in FilePaths |->
                                IF f \in unlinked THEN None ELSE st.files[f]],
                   index |-> [k \in IndexKeys |->
                                IF k[1] = symbol /\ k[2] \in periods
                                THEN NoRow ELSE st.index[k]]],
        removed |-> Cardinality(unlinked)]

RECURSIVE remove_entries(_, _, _, _)
\* The loops of _remove_all and _remove_older_than: _remove_symbol for the
\* symbol of each row fetched beforehand, the counts summed.
remove_entries(st, entries, older_than, removed) ==
    IF entries = {} THEN [store |-> st, removed |-> removed]
    ELSE LET e == CHOOSE e \in entries : TRUE
             out == remove_symbol(st, e[1], older_than)
         IN remove_entries(out.store, entries \ {e}, older_than,
                           removed + out.removed)

\* Cache.clear(symbol, older_than_days) at time t; an argument left out is
\* the empty sequence, one given a one-element sequence.
cache_clear(st, symbol, older_than_days, t) ==
    LET cutoff == IF older_than_days = <<>> THEN <<>>
                  ELSE <<t - older_than_days[1]>>
        entries == {k \in IndexKeys : row_selected(st.index[k], cutoff)}
    IN IF symbol = <<>> THEN remove_entries(st, entries, cutoff, 0)
       ELSE remove_symbol(st, symbol[1], cutoff)

\* Nothing was cleared since the last set.
NoClear == [cleared |-> FALSE, symbol |-> <<>>, older_than_days |-> <<>>,
            at |-> 0, before |-> EmptyStore, removed |-> 0]

InitClear ==
    /\ active_future = 0
    /\ cancel_event = FALSE
    /\ futures = [i \in ScanIds |-> NoFuture]
    /\ done_callbacks = [i \in ScanIds |-> "none"]
    /\ next_id = 0
    /\ caller = IdleCaller
    /\ mgr = [pc |-> "idle", id |-> 0, shutdown |-> FALSE]
    /\ scan = NoScan
    /\ units = <<>>
    /\ cache = EmptyStore
    /\ now = ttl_days + 1
    /\ loaded = NoLoad
    /\ client = PlainClient
    /\ window = NoWindow
    /\ observed = NoClear

\* cache.set(symbol, period, df) with a series that is not empty.
StoreSet(symbol, period) ==
    /\ cache' = store_set(cache, symbol, period, "new", now)
    /\ observed' = NoClear
    /\ UNCHANGED <<window, client, active_future, cancel_event, futures, done_callbacks,
                   next_id, caller, mgr, scan, units, now, loaded>>

\* cache.clear(symbol, older_than_days); the observer notes the arguments,
\* the cache found and the count returned.
Clear(symbol, older_than_days) ==
    LET out == cache_clear(cache, symbol, older_than_days, now) IN
    /\ cache' = out.store
    /\ observed' = [cleared |-> TRUE, symbol |-> symbol,
                    older_than_days |-> older_than_days, at |-> now,
                    before |-> cache, removed |-> out.removed]
    /\ UNCHANGED <<window, client, active_future, cancel_event, futures, done_callbacks,
                   next_id, caller, mgr, scan, units, now, loaded>>

NextClear ==
    \/ \E symbol \in ClearSymbols, period \in Periods : StoreSet(symbol, period)
    \/ \E symbol \in {<<>>} \cup {<<x>> : x \in ClearSymbols},
          older_than_days \in {<<>>, <<0>>, <<ttl_days>>} :
         Clear(symbol, older_than_days)
    \/ AdvanceClock

SpecClear == InitClear /\ [][NextClear]_vars

\* ------------------------------------------------------ the fetcher alone
FetchSymbols == {<<UpperLetters[i]>> : i \in 1..MaxFetched}

\* A frame with rows whose values are all NaN.
AllNaN == "all_nan"

\* The lists fetch_batch is called with: distinct symbols, as the loader
\* builds them; here in alphabetical order, which loses nothing since
\* fetch_batch does not look into the symbols.
FetchLists ==
    {[i \in 1..Cardinality(S) |->
        <<UpperLetters[CHOOSE k \in S : Cardinality({j \in S : j < k}) = i - 1]>>] :
     S \in SUBSET (1..MaxFetched)}

\* What yf.download gives for the chunks, by chunk number: no usable frame
\* ("failed": the retries ran out, or the frame is empty), a frame with flat
\* columns, one whose rows are all NaN, or one grouped by ticker; slot tells,
\* for a grouped frame, what it holds per symbol (None: no such column) and
\* single what Ticker.history yields per symbol after retries (None: the
\* retries ran out).  Chunks and symbols that a call does not have are given
\* one value only.
Downloads ==
    [kind : [1..MaxFetched -> {"failed", "flat", "flat_all_nan", "grouped"}],
     slot : [FetchSymbols -> {None, EmptyFrame, "new"}],
     single : [FetchSymbols -> {None, EmptyFrame, AllNaN, "new"}]]

\* _chunked: consecutive slices of chunk_size items.
chunked(items, chunk_size) ==
    [i \in 1..((Len(items) + chunk_size - 1) \div chunk_size) |->
        SubSeq(items, (i - 1) * chunk_size + 1,
               IF i * chunk_size < Len(items) THEN i * chunk_size
               ELSE Len(items))]

\* Fetcher._split_batch_result after _download_chunk, for chunk number n.
split_batch_result(chunk, n, net) ==
    [symbol \in Range(chunk) |->
        IF net.kind[n] = "failed" THEN None
        ELSE IF net.kind[n] = "grouped" THEN net.slot[symbol]
        ELSE IF symbol # chunk[1] THEN None
        ELSE IF net.kind[n] = "flat" THEN "new"
        ELSE EmptyFrame]

\* Fetcher._prepare_frame: dropna(how="all") leaves no row of a frame whose
\* values are all NaN; a timezone-aware index is converted to a naive one.
prepare_frame(df) ==
    IF df = AllNaN THEN EmptyFrame
    ELSE frame([Frames[df] EXCEPT !.tz = "naive"])

\* The end of fetch_single (lines 58-62): None when nothing or an empty frame
\* came back, else the frame as _prepare_frame leaves it.
single_result(df) ==
    IF df = None \/ df = EmptyFrame THEN None ELSE prepare_frame(df)

\* Fetcher.fetch_single, given what the retried Ticker.history came to.
fetch_single(symbol, net) == single_result(net.single[symbol])

\* (mutant) only a missing slot falls back, an empty one is kept.
needs_fallback_unless_empty(df) == df = None

\* fetch_batch line 81: the slot is None or empty.
needs_fallback(df) == df = None \/ df = EmptyFrame

RECURSIVE serve_chunk(_, _, _, _)
\* The inner loop of fetch_batch over one chunk; acc holds results and the
\* fetch_single calls made so far.
serve_chunk(chunk, frames, net, acc) ==
    IF chunk = <<>> THEN acc
    ELSE LET symbol == Head(chunk)
             fallback == needs_fallback(frames[symbol])
             df == IF fallback THEN fetch_single(symbol, net)
                   ELSE frames[symbol]
         IN serve_chunk(Tail(chunk), frames, net,
              [results |-> [acc.results EXCEPT ![symbol] =
                              IF df # None /\ df # EmptyFrame THEN df
                              ELSE None],
               single_calls |-> IF fallback
                                THEN Append(acc.single_calls, symbol)
                                ELSE acc.single_calls])

RECURSIVE serve_chunks(_, _, _, _)
\* The outer loop of fetch_batch, from chunk number n on.
serve_chunks(chunks, n, net, acc) ==
    IF n > Len(chunks) THEN acc
    ELSE serve_chunks(chunks, n + 1, net,
           serve_chunk(chunks[n], split_batch_result(chunks[n], n, net), net,
                       acc))

\* Fetcher.fetch_batch: the mapping returned and the fetch_single calls made.
fetch_batch(symbols, chunk_size, net) ==
    serve_chunks(chunked(symbols, chunk_size), 1, net,
                 [results |-> [symbol \in Range(symbols) |-> None],
                  single_calls |-> <<>>])

\* fetch_batch is about to be called with some list, chunk size and network.
InitFetch ==
    /\ active_future = 0
    /\ cancel_event = FALSE
    /\ futures = [i \in ScanIds |-> NoFuture]
    /\ done_callbacks = [i \in ScanIds |-> "none"]
    /\ next_id = 0
    /\ caller = IdleCaller
    /\ mgr = [pc |-> "idle", id |-> 0, shutdown |-> FALSE]
    /\ scan = NoScan
    /\ units = <<>>
    /\ cache = [k \in Keys |-> AbsentEntry]
    /\ now = ttl_days + 1
    /\ loaded = NoLoad
    /\ client = PlainClient
    /\ window = NoWindow
    /\ \E symbols \in FetchLists, chunk_size \in 1..MaxChunk, net \in Downloads :
         /\ \A n \in 1..MaxFetched :
              n > Len(chunked(symbols, chunk_size)) => net.kind[n] = "failed"
         /\ \A symbol \in FetchSymbols \ Range(symbols) :
              net.slot[symbol] = None /\ net.single[symbol] = None
         /\ observed = [symbols |-> symbols, chunk_size |-> chunk_size,
                     net |-> net, returned |-> FALSE,
                     results |-> <<>>, single_calls |-> <<>>]

\* fetch_batch(symbols, period, chunk_size) runs and returns.
FetchBatch ==
    /\ ~observed.returned
    /\ LET out == fetch_batch(observed.symbols, observed.chunk_size,
                              observed.net)
       IN observed' = [observed EXCEPT !.returned = TRUE,
                                       !.results = out.results,
                                       !.single_calls = out.single_calls]
    /\ UNCHANGED <<window, client, active_future, cancel_event, futures, done_callbacks,
                   next_id, caller, mgr, scan, units, cache, now, loaded>>

SpecFetch == InitFetch /\ [][FetchBatch]_vars

\* ------------------------------------------------------ the retries alone
\* A Fetcher's retry settings (seconds and factor as whole numbers) and, per
\* attempt, whether the transport operation returns or raises.
RetryInputs ==
    [max_retries : 0..MaxRetries, initial_backoff_seconds : {1, 2},
     backoff_factor : {1, 2, 3},
     outcomes : [1..MaxRetries -> {"returns", "raises"}]]

\* (mutant) the loop never breaks out after a failed attempt.
retries_exhausted_never(attempt, max_retries) == FALSE

\* _execute_with_retries line 159: the failed attempt was the last one.
retries_exhausted(attempt, max_retries) == attempt >= max_retries

RECURSIVE attempt_from(_, _, _, _)
\* The loop of _execute_with_retries from one attempt on; events lists the
\* calls of the operation and of sleep_fn (with its delay) in order.
attempt_from(attempt, delay, in, events) ==
    IF attempt > in.max_retries
    THEN [events |-> events,
          outcome |-> IF events = <<>> THEN "RuntimeError" ELSE "last_exception"]
    ELSE LET called == Append(events, [kind |-> "operation", delay |-> 0])
         IN IF in.outcomes[attempt] = "returns"
            THEN [events |-> called, outcome |-> "returned"]
            ELSE IF retries_exhausted(attempt, in.max_retries)
            THEN [events |-> called, outcome |-> "last_exception"]
            ELSE attempt_from(attempt + 1, delay * in.backoff_factor, in,
                              Append(called, [kind |-> "sleep", delay |-> delay]))

\* Fetcher._execute_with_retries
execute_with_retries(in) ==
    attempt_from(1, in.initial_backoff_seconds, in, <<>>)

\* A Fetcher is about to run one operation under its retry loop.
InitRetries ==
    /\ active_future = 0
    /\ cancel_event = FALSE
    /\ futures = [i \in ScanIds |-> NoFuture]
    /\ done_callbacks = [i \in ScanIds |-> "none"]
    /\ next_id = 0
    /\ caller = IdleCaller
    /\ mgr = [pc |-> "idle", id |-> 0, shutdown |-> FALSE]
    /\ scan = NoScan
    /\ units = <<>>
    /\ cache = [k \in Keys |-> AbsentEntry]
    /\ now = ttl_days + 1
    /\ loaded = NoLoad
    /\ client = PlainClient
    /\ window = NoWindow
    /\ \E in \in RetryInputs :
         observed = [in |-> in, events |-> <<>>, outcome |-> None]

\* _execute_with_retries runs until it returns or raises.
ExecuteWithRetries ==
    /\ observed.outcome = None
    /\ LET out == execute_with_retries(observed.in)
       IN observed' = [observed EXCEPT !.events = out.events,
                                       !.outcome = out.outcome]
    /\ UNCHANGED <<window, client, active_future, cancel_event, futures, done_callbacks,
                   next_id, caller, mgr, scan, units, cache, now, loaded>>

SpecRetries == InitRetries /\ [][ExecuteWithRetries]_vars

\* ------------------------------------------------- one single fetch alone
\* What Ticker.history gives when it returns: nothing, an empty frame, a
\* frame of NaN rows, a frame with a naive or a timezone-aware index.
HistoryFrames == {None, EmptyFrame, AllNaN, "new", "new_tz"}

\* Fetcher.fetch_single over its retry loop: an exception leaving
\* _execute_with_retries is caught and None returned (lines 52-56), what the
\* operation returned goes through lines 58-62.
fetch_single_call(in, history) ==
    LET run == execute_with_retries(in) IN
    [events |-> run.events,
     outcome |-> run.outcome,
     raised |-> None,
     result |-> IF run.outcome = "returned" THEN single_result(history)
                ELSE None]

\* A Fetcher is about to be asked for one symbol.
InitSingle ==
    /\ active_future = 0
    /\ cancel_event = FALSE
    /\ futures = [i \in ScanIds |-> NoFuture]
    /\ done_callbacks = [i \in ScanIds |-> "none"]
    /\ next_id = 0
    /\ caller = IdleCaller
    /\ mgr = [pc |-> "idle", id |-> 0, shutdown |-> FALSE]
    /\ scan = NoScan
    /\ units = <<>>
    /\ cache = [k \in Keys |-> AbsentEntry]
    /\ now = ttl_days + 1
    /\ loaded = NoLoad
    /\ client = PlainClient
    /\ window = NoWindow
    /\ \E in \in RetryInputs, history \in HistoryFrames :
         observed = [in |-> in, history |-> history, called |-> FALSE,
                     events |-> <<>>, outcome |-> None, raised |-> None,
                     result |-> None]

\* fetch_single(symbol, period) runs and comes back.
FetchSingle ==
    /\ ~observed.called
    /\ LET out == fetch_single_call(observed.in, observed.history)
       IN observed' = [observed EXCEPT !.called = TRUE,
                                       !.events = out.events,
                                       !.outcome = out.outcome,
                                       !.raised = out.raised,
                                       !.result = out.result]
    /\ UNCHANGED <<window, client, active_future, cancel_event, futures, done_callbacks,
                   next_id, caller, mgr, scan, units, cache, now, loaded>>

SpecSingle == InitSingle /\ [][FetchSingle]_vars

\* --------------------------------------- the count at the moment of a stop
\* No stop() has set the event during a scan loop yet.
NoCut == [id |-> 0, counted |-> 0]

InitCut ==
    /\ active_future = 0
    /\ cancel_event = FALSE
    /\ futures = [i \in ScanIds |-> NoFuture]
    /\ done_callbacks = [i \in ScanIds |-> "none"]
    /\ next_id = 0
    /\ caller = IdleCaller
    /\ mgr = [pc |-> "idle", id |-> 0, shutdown |-> FALSE]
    /\ scan = NoScan
    /\ units = <<>>
    /\ cache = [k \in Keys |-> AbsentEntry]
    /\ now = ttl_days + 1
    /\ loaded = NoLoad
    /\ client = PlainClient
    /\ window = NoWindow
    /\ observed = NoCut

\* stop(); when it sets the event (which was clear) while the scan loop is
\* consuming units, and is the first to do so in this scan, the observer
\* notes the scan and the units its loop has counted so far.
StopCounted ==
    /\ Stop
    /\ observed' = IF in_evaluation_phase /\ ~cancel_event
                      /\ observed.id # mgr.id
                   THEN [id |-> mgr.id, counted |-> scan.processed]
                   ELSE observed

CallerCut ==
    \/ StartBusy("instance")
    \/ \E n \in 0..MaxSyms :
         StartAccepted("instance", RawList(n)) /\ UNCHANGED observed
    \/ AddDoneCallback
    \/ StopCounted

NextCut == CallerCut \/ Manager \/ Workers

SpecCut == InitCut /\ [][NextCut]_vars

\* ------------------------------------------------ the chart loader alone
\* What the cache may hold for a key when the chart asks: nothing, a series
\* written today, exactly ttl_days ago or before that, a file without a
\* metadata row, a file that cannot be read.
ChartEntries ==
    {AbsentEntry, Entry("old", ttl_days + 1), Entry("old", 1), Entry("old", 0),
     [df |-> "old", indexed |-> FALSE, updated_at |-> 0],
     [df |-> Unreadable, indexed |-> TRUE, updated_at |-> ttl_days + 1]}

\* The ttl_days a ChartDataProvider is built with: none (<<>>) or a number
\* of days, -1 in the tests.
ChartTtls == {<<>>, <<-1>>, <<0>>, <<ttl_days>>}

\* (mutant) a cached series is returned whatever its age.
chart_uses_cached_whatever_age(cached, stale) ==
    cached # None /\ cached # EmptyFrame

\* The test of line 44: there is a cached series and it is not stale.
chart_uses_cached(cached, stale) ==
    cached # None /\ cached # EmptyFrame /\ ~stale

\* ChartDataProvider.load, given what fetch_single returns if it is called:
\* the value returned, the cache afterwards, the calls of fetch_single and of
\* cache.set.
chart_load(c, symbol, t, ttl, fresh) ==
    LET cached == cache_get(c, symbol)
        stale == IF ttl = <<>> THEN cache_is_stale(c, symbol, t)
                 ELSE is_stale(c, symbol, t, ttl[1])
    IN IF chart_uses_cached(cached, stale)
       THEN [returned |-> cached, cache |-> c, fetch_calls |-> 0,
             set_calls |-> 0]
       ELSE IF fresh # None /\ fresh # EmptyFrame
       THEN [returned |-> fresh, cache |-> cache_set(c, symbol, fresh, t),
             fetch_calls |-> 1, set_calls |-> 1]
       ELSE [returned |-> cached, cache |-> c, fetch_calls |-> 1,
             set_calls |-> 0]

\* A ChartDataProvider just built over some cache directory.
InitChart ==
    /\ active_future = 0
    /\ cancel_event = FALSE
    /\ futures = [i \in ScanIds |-> NoFuture]
    /\ done_callbacks = [i \in ScanIds |-> "none"]
    /\ next_id = 0
    /\ caller = IdleCaller
    /\ mgr = [pc |-> "idle", id |-> 0, shutdown |-> FALSE]
    /\ scan = NoScan
    /\ units = <<>>
    /\ cache \in [Keys -> ChartEntries]
    /\ now = ttl_days + 1
    /\ loaded = NoLoad
    /\ client = PlainClient
    /\ window = NoWindow
    /\ \E ttl \in ChartTtls :
         observed = [ttl |-> ttl, called |-> FALSE, key |-> None,
                     cache_before |-> cache, at |-> 0, fetched |-> None,
                     returned |-> None, fetch_calls |-> 0, set_calls |-> 0]

\* provider.load(symbol, period); history is what Ticker.history would give
\* the fetcher.
ChartLoad(symbol, history) ==
    LET fresh == single_result(history)
        out == chart_load(cache, symbol, now, observed.ttl, fresh)
    IN /\ cache' = out.cache
       /\ observed' = [observed EXCEPT !.called = TRUE, !.key = symbol,
                                       !.cache_before = cache, !.at = now,
                                       !.fetched = fresh,
                                       !.returned = out.returned,
                                       !.fetch_calls = out.fetch_calls,
                                       !.set_calls = out.set_calls]
       /\ UNCHANGED <<window, client, active_future, cancel_event, futures,
                      done_callbacks, next_id, caller, mgr, scan, units, now,
                      loaded>>

NextChart ==
    \/ \E symbol \in Keys, history \in HistoryFrames : ChartLoad(symbol, history)
    \/ AdvanceClock

SpecChart == InitChart /\ [][NextChart]_vars

\* ------------------------------------------ the main window's chart requests
\* Everything but the main window.
all_but_window ==
    <<active_future, cancel_event, futures, done_callbacks, next_id, caller,
      mgr, scan, units, cache, now, loaded, client, observed>>

InitWindow ==
    /\ active_future = 0
    /\ cancel_event = FALSE
    /\ futures = [i \in ScanIds |-> NoFuture]
    /\ done_callbacks = [i \in ScanIds |-> "none"]
    /\ next_id = 0
    /\ caller = IdleCaller
    /\ mgr = [pc |-> "idle", id |-> 0, shutdown |-> FALSE]
    /\ scan = NoScan
    /\ units = <<>>
    /\ cache = [k \in Keys |-> AbsentEntry]
    /\ now = ttl_days + 1
    /\ loaded = NoLoad
    /\ client = PlainClient
    /\ window = NoWindow
    /\ observed = NoObservation

\* What a call of ChartDataProvider.load comes to: a series, nothing, or an
\* exception.
LoadOutcomes == {"frame", "no_frame", "error"}

\* _request_chart_data(symbol), up to the submit: the token is incremented
\* and kept by the request, the widget shows that it is loading, and the
\* load is queued on the chart executor.
RequestChartData ==
    /\ window.pc = "idle"
    /\ window.chart_request_token < MaxTokens
    /\ LET token == window.chart_request_token + 1 IN
       window' = [window EXCEPT
                    !.pc = "add_done_callback",
                    !.chart_request_token = token,
                    !.chart = [shown |-> "loading", token |-> token,
                               outcome |-> "none"],
                    !.loads = Append(@, [token |-> token, state |-> "queued",
                                         outcome |-> "none",
                                         relay |-> "none"])]
    /\ UNCHANGED all_but_window

\* _relay: the handler of the load's outcome, with the token of its request,
\* is posted to the event loop (QTimer.singleShot).
relay(load) == [token |-> load.token, outcome |-> load.outcome]

\* _request_chart_data, its last line: future.add_done_callback(_relay).  On
\* a load already finished _relay runs at once, in the main thread.
AddRelay ==
    /\ window.pc = "add_done_callback"
    /\ LET n == Len(window.loads)
           load == window.loads[n]
       IN IF load.state = "finished"
          THEN window' = [window EXCEPT !.pc = "idle",
                                        !.loads[n].relay = "invoked",
                                        !.events = @ \cup {relay(load)}]
          ELSE window' = [window EXCEPT !.pc = "idle",
                                        !.loads[n].relay = "registered"]
    /\ UNCHANGED all_but_window

\* _cancel_chart_request, as its callers use it: the token is incremented;
\* a new scan then empties the widget (clear()), a selection that became
\* invalid only resets its title (set_symbol(None)) and leaves what it shows.
CancelChartRequest(cleared) ==
    /\ window.pc = "idle"
    /\ window.chart_request_token < MaxTokens
    /\ window' = [window EXCEPT
                    !.chart_request_token = @ + 1,
                    !.chart = IF cleared
                              THEN [shown |-> "nothing", token |-> 0,
                                    outcome |-> "none"]
                              ELSE @]
    /\ UNCHANGED all_but_window

\* The single thread of the chart executor takes the oldest queued load.
LoadStarts(n) ==
    /\ window.loads[n].state = "queued"
    /\ \A j \in DOMAIN window.loads :
          /\ window.loads[j].state # "running"
          /\ j < n => window.loads[j].state # "queued"
    /\ window' = [window EXCEPT !.loads[n].state = "running"]
    /\ UNCHANGED all_but_window

\* The load returns or raises; _relay, if registered by then, runs in the
\* executor's thread.
LoadEnds(n, outcome) ==
    /\ window.loads[n].state = "running"
    /\ LET ended == [window.loads[n] EXCEPT !.state = "finished",
                                            !.outcome = outcome]
       IN IF ended.relay = "registered"
          THEN window' = [window EXCEPT
                            !.loads[n] = [ended EXCEPT !.relay = "invoked"],
                            !.events = @ \cup {relay(ended)}]
          ELSE window' = [window EXCEPT !.loads[n] = ended]
    /\ UNCHANGED all_but_window

\* (mutant) the handlers apply whatever reaches them.
token_is_current_unchecked(token, current) == TRUE

\* The test at the head of both handlers, negated: the token of the request
\* is still the window's.
token_is_current(token, current) == token = current

\* The event loop runs a posted handler, _handle_chart_loaded or
\* _handle_chart_error: with the current token the widget is given the
\* series (or none) or the error message, else nothing happens.
HandleChartOutcome(e) ==
    /\ window.pc = "idle"
    /\ e \in window.events
    /\ window' = [window EXCEPT
                    !.events = @ \ {e},
                    !.chart = IF token_is_current(e.token,
                                                  window.chart_request_token)
                              THEN [shown |-> IF e.outcome = "error"
                                              THEN "error" ELSE "data",
                                    token |-> e.token, outcome |-> e.outcome]
                              ELSE @]
    /\ UNCHANGED all_but_window

\* A posted handler never runs (the window is closed, or the thread it was
\* posted from runs no event loop).
EventLost(e) ==
    /\ e \in window.events
    /\ window' = [window EXCEPT !.events = @ \ {e}]
    /\ UNCHANGED all_but_window

NextWindow ==
    \/ RequestChartData
    \/ AddRelay
    \/ \E cleared \in BOOLEAN : CancelChartRequest(cleared)
    \/ \E n \in DOMAIN window.loads : LoadStarts(n)
    \/ \E n \in DOMAIN window.loads, outcome \in LoadOutcomes :
         LoadEnds(n, outcome)
    \/ \E e \in window.events : HandleChartOutcome(e)
    \/ \E e \in window.events : EventLost(e)

SpecWindow == InitWindow /\ [][NextWindow]_vars

\* ------------------------------------------------ the calls of stop() observed
InitStops == InitFor(StoppingClient)

\* stop(), noted as idle when no scan is queued or running, else counted.
StopObserved ==
    /\ Stop
    /\ observed' = [observed EXCEPT
                      !.idle_stop = @ \/ unresolved = {},
                      !.stops = IF unresolved # {} /\ @ < MaxStopsCounted
                                THEN @ + 1 ELSE @]

\* start() accepted: noted whether a stop() on the idle runner came before
\* it, and whether the scan before, started after such a stop(), ran in full.
StartObserved(n) ==
    /\ StartAccepted("instance", RawList(n))
    /\ observed' = [idle_stop |-> FALSE,
                    after_idle_stop |-> observed.idle_stop,
                    unaffected |-> \/ observed.unaffected
                                   \/ /\ observed.after_idle_stop
                                      /\ resolved_with_summary /\ ~stop_requested
                                      /\ scan.total = MaxSyms
                                      /\ scan.delivered = scan.total,
                    stops |-> 0]

CallerObserved ==
    \/ StartBusy("instance")
    \/ \E n \in 0..MaxSyms : StartObserved(n)
    \/ AddDoneCallback
    \/ StopObserved

NextStops == CallerObserved \/ Manager \/ Workers

SpecStops == InitStops /\ [][NextStops]_vars

\* What stop() could change of the program: the event, the active handle,
\* the handles' states and results, the manager, the scan's counters, the
\* units' states and outcomes.
program_state ==
    <<active_future, cancel_event, done_callbacks, next_id, mgr, cache,
      [i \in ScanIds |-> <<futures[i].state, futures[i].result>>],
      <<scan.processed, scan.skipped, scan.errors, scan.delivered, scan.raised>>,
      [i \in DOMAIN units |-> <<units[i].state, units[i].result, units[i].error>>]>>

\* C19: a scan started after a stop() on the idle runner, and not stopped
\* itself, runs with the event clear: no unit of it is cancelled at its
\* entry, every symbol with data is evaluated, and its summary has
\* processed = total.  A stop() that finds the event set changes nothing of
\* the program.
C19_StopIdempotent ==
    /\ [](\A id \in ScanIds :
            (futures[id].state \in {"pending", "running"}
               /\ ~futures[id].stop_called) =>
                /\ ~cancel_event
                /\ mgr.id = id =>
                     \A i \in DOMAIN units :
                         (units[i].state \in {"running", "done"}
                            /\ ~units[i].evaluated) =>
                             /\ units[i].error = "missing"
                             /\ scan.price_map[scan.symbols[i]] \in {None, EmptyFrame})
    /\ []((resolved_with_summary /\ ~stop_requested) =>
            scan.processed = scan.total)
    /\ [][(cancel_event /\ observed'.stops > observed.stops)
             => program_state' = program_state]_vars

\* C19 witness: a scan started after a stop() on the idle runner delivered
\* all its symbols, and the next scan, stopped twice, was cut short.
C19_Witness ==
    /\ observed.unaffected
    /\ observed.stops = MaxStopsCounted
    /\ resolved_with_summary /\ stop_requested
    /\ scan.processed < scan.total

\* Two series are equal in values and index (DataFrame.equals: the freq of
\* the index is not compared, its timezone is).
series_equal(a, b) ==
    /\ a \in DOMAIN Frames /\ b \in DOMAIN Frames
    /\ Frames[a].values = Frames[b].values
    /\ Frames[a].regular = Frames[b].regular
    /\ Frames[a].tz = Frames[b].tz

\* C20 as stated: set (its write going through) followed by get returns a
\* series equal to the one given, whatever was stored before.
C20_RoundTrip ==
    (observed.given \in DOMAIN Frames /\ observed.written
                                      /\ observed.raised = None) =>
        series_equal(observed.got, observed.given)

\* What get returned for the key before the observed set.
prior_series ==
    IF observed.prior.df \in {None, Unreadable, EmptyFrame} THEN None
    ELSE restore_index_frequency(observed.prior.df)

\* C20 as amended: when the write goes through, the series returned has the
\* values given and replaces the entry found; its index is timezone-naive
\* (the timestamps given, converted to UTC when they were timezone-aware)
\* and carries a freq exactly when one can be inferred from the timestamps;
\* so a series given with a naive index comes back equal in values and index,
\* and identical when it had a freq exactly when one can be inferred.  When
\* the write fails, get returns the series stored before or nothing.
C20_RoundTripNormalised ==
    (observed.given \in DOMAIN Frames /\ observed.raised = None) =>
        LET given == Frames[observed.given]
            got == Frames[observed.got]
        IN /\ observed.written =>
                /\ observed.got \in DOMAIN Frames
                /\ got.values = given.values
                /\ got.regular = given.regular
                /\ got.tz = "naive"
                /\ got.freq = (IF given.regular THEN "set" ELSE "unset")
                /\ given.tz = "naive" =>
                     series_equal(observed.got, observed.given)
                /\ (given.tz = "naive" /\ given.freq = got.freq) =>
                     observed.got = observed.given
           /\ ~observed.written => observed.got \in {prior_series, None}
           /\ cache_get(cache, observed.key) = observed.got

\* C20 witness: a series with a freq on its evenly spaced naive index was
\* stored over another one and came back equal.
C20_Witness ==
    /\ observed.given = "new_freq_regular"
    /\ observed.written
    /\ observed.prior.df = "old"
    /\ observed.got = "new_freq_regular"

\* C21: is_stale answers TRUE when the key has no entry, and otherwise
\* exactly when now - updated_at > ttl, with now and the entry those of the
\* call (ttl_days when no ttl is passed); so when it answers TRUE for a ttl it
\* answers TRUE for every smaller one.
C21_IsStale ==
    observed.key # None =>
        LET e == observed.entry
            expected(ttl) == ~e.indexed \/ observed.at - e.updated_at > ttl
        IN /\ \A ttl \in TtlArgs : observed.stale[ttl] = expected(ttl)
           /\ observed.stale_by_default = expected(ttl_days)
           /\ \A t1, t2 \in TtlArgs :
                (t2 < t1 /\ observed.stale[t1]) => observed.stale[t2]

\* C21 witness: an entry ttl_days + 1 days old was asked about after the
\* clock moved on: stale for the default ttl and for ttl 0, fresh for a ttl
\* of ttl_days + 1.
C21_Witness ==
    /\ observed.key # None
    /\ observed.entry.indexed
    /\ observed.at - observed.entry.updated_at = ttl_days + 1
    /\ observed.at > ttl_days + 1
    /\ observed.stale_by_default /\ observed.stale[0]
    /\ ~observed.stale[ttl_days + 1]

\* What get returns for a key whose entry is e.
series_of(e) ==
    IF e.df \in {None, Unreadable, EmptyFrame} THEN None
    ELSE restore_index_frequency(e.df)

\* C22: a get of a key while set is running for that key returns the series
\* stored before (nothing only if nothing was stored) or the new one.
C22_NoPartialEntry ==
    (observed.key # None /\ observed.writer.pc # "idle"
                         /\ observed.writer.key = observed.key) =>
        observed.got \in {series_of(observed.writer.prior),
                          restore_index_frequency(
                              parquet(to_store(observed.writer.df)))}

\* C23: no cache operation raises to its caller because the storage or the
\* index fails; a get whose read fails returns nothing; a set whose write
\* fails leaves the series stored before and its updated_at as they were.
C23_BestEffort ==
    /\ observed.raised = None
    /\ observed.op = "get" => observed.got = None
    /\ (observed.op = "set" /\ ~observed.written) =>
           /\ series_of(cache[observed.key]) = series_of(observed.prior)
           /\ cache[observed.key].indexed = observed.prior.indexed
           /\ cache[observed.key].updated_at = observed.prior.updated_at

\* Whether clear's filter, as the caller passed it, matches a key of the
\* cache found.
matches_filter(k) ==
    /\ observed.symbol = <<>> \/ observed.symbol[1] = k[1]
    /\ observed.older_than_days = <<>>
          \/ observed.before.index[k].updated_at
                 < observed.at - observed.older_than_days[1]

\* C24: after clear, get is absent for every stored key its filter matches,
\* every stored key of another symbol reads as before, and the count
\* returned is the number of files removed.
C24_ClearExactly ==
    observed.cleared =>
        /\ \A k \in IndexKeys :
              (observed.before.index[k].present /\ matches_filter(k)) =>
                  store_get(cache, k[1], k[2]) = None
        /\ \A k \in IndexKeys :
              (observed.before.index[k].present
                  /\ observed.symbol # <<>> /\ observed.symbol[1] # k[1]) =>
                  store_get(cache, k[1], k[2])
                      = store_get(observed.before, k[1], k[2])
        /\ observed.removed =
              Cardinality({f \in FilePaths : /\ observed.before.files[f] # None
                                             /\ cache.files[f] = None})

\* The position of a symbol in the list passed to fetch_batch.
position(symbol) ==
    CHOOSE i \in DOMAIN observed.symbols : observed.symbols[i] = symbol

\* What the batch download served for a symbol, None if its slot is failed,
\* missing or empty: told from the network alone.
batch_served(symbol) ==
    LET i == position(symbol)
        n == ((i - 1) \div observed.chunk_size) + 1
        first == (i - 1) % observed.chunk_size = 0
        kind == observed.net.kind[n]
    IN IF kind = "grouped" /\ observed.net.slot[symbol] = "new" THEN "new"
       ELSE IF kind = "flat" /\ first THEN "new"
       ELSE None

\* How often fetch_single was called for a symbol.
single_calls_for(symbol) ==
    Cardinality({i \in DOMAIN observed.single_calls :
                    observed.single_calls[i] = symbol})

operation_calls == {i \in DOMAIN observed.events :
                       observed.events[i].kind = "operation"}
sleeps == {i \in DOMAIN observed.events : observed.events[i].kind = "sleep"}

\* C26: the operation is invoked at most max_retries times; no attempt
\* follows a successful one; every sleep lies between two attempts; the first
\* sleep lasts initial_backoff_seconds and each later one backoff_factor
\* times the one before.
C26_BoundedRetries ==
    observed.outcome # None =>
        LET in == observed.in
            attempt_of(i) == Cardinality({j \in operation_calls : j <= i})
        IN /\ Cardinality(operation_calls) <= in.max_retries
           /\ \A i \in operation_calls :
                in.outcomes[attempt_of(i)] = "returns" =>
                    i = Len(observed.events)
           /\ \A i \in sleeps : /\ i - 1 \in operation_calls
                                 /\ i + 1 \in operation_calls
           /\ \A i \in sleeps :
                observed.events[i].delay =
                    IF \E j \in sleeps : j < i
                    THEN observed.events[i - 2].delay * in.backoff_factor
                    ELSE in.initial_backoff_seconds

\* C26 witness: three retries allowed, all three attempts raised: two
\* sleeps, the second backoff_factor times the first, none after the last
\* attempt.
C26_Witness ==
    /\ observed.outcome = "last_exception"
    /\ observed.in.max_retries = 3
    /\ observed.in.initial_backoff_seconds = 1
    /\ observed.in.backoff_factor = 2
    /\ Len(observed.events) = 5
    /\ observed.events[2] = [kind |-> "sleep", delay |-> 1]
    /\ observed.events[4] = [kind |-> "sleep", delay |-> 2]
    /\ observed.events[5].kind = "operation"

\* The progress counters of the running scan.
counters == <<scan.processed, scan.skipped, scan.errors>>

\* The units the scan loop has taken from as_completed.
consumed_units == {i \in DOMAIN units : units[i].state = "consumed"}

\* C27: the counters move in steps of the scan loop only, never in a step of
\* a worker; so while no exception has left the loop, processed is the
\* number of units consumed, and so is skipped + errors + results delivered,
\* however the workers' completions interleave.
C27_NoLostUpdate ==
    /\ [](scan.raised = None =>
            /\ scan.processed = Cardinality(consumed_units)
            /\ scan.skipped + scan.errors + scan.delivered
                  = Cardinality(consumed_units))
    /\ [][Workers => UNCHANGED counters]_vars

\* C27 witness: the second unit submitted finished first and was consumed
\* and counted while the first was still being evaluated.
C27_Witness ==
    /\ mgr.pc = "loop"
    /\ scan.total = 2
    /\ units[2].state = "consumed"
    /\ units[1].state = "running"
    /\ scan.processed = 1

\* C28: a failure of the fundamentals provider for one symbol does not leave
\* the scan loop, and the handle of a scan in which it happened resolves
\* with a summary.
C28_ProviderFailureContained ==
    /\ scan.raised # "provider_error"
    /\ \A i \in ScanIds :
          (futures[i].state = "finished" /\ mgr.id = i
              /\ \E u \in DOMAIN units : units[u].result = "exception") =>
              futures[i].result = "summary"

\* The symbols for which the latest fetch_batch returned a series.
fetched_with_data ==
    {k \in Range(loaded.symbols) :
        k \in DOMAIN loaded.fetched /\ loaded.fetched[k] \in Series}

\* C29: in one price resolution cache.set is called for exactly the symbols
\* the fetch returned a series for, hence for no cache hit and no stale
\* fallback, and the cache then holds that series as of now; cache_misses
\* counts these symbols, cache_hits the symbols served fresh from the cache,
\* and together they do not exceed the number of symbols.
C29_WriteThroughOnMissOnly ==
    /\ loaded.set_calls = fetched_with_data
    /\ \A k \in Range(loaded.symbols) :
          /\ was_fresh(k) => k \notin loaded.set_calls
          /\ (was_stale(k) /\ fetch_failed(k)) => k \notin loaded.set_calls
          /\ k \in loaded.set_calls =>
                /\ cache_get(cache, k) = loaded.fetched[k]
                /\ cache[k].updated_at = loaded.at
    /\ loaded.cache_misses = Cardinality(fetched_with_data)
    /\ loaded.cache_hits =
          Cardinality({k \in Range(loaded.symbols) : was_fresh(k)})
    /\ loaded.cache_hits + loaded.cache_misses <= Len(loaded.symbols)

\* C29 witness: two symbols, one stale in the cache and fetched anew, one
\* fresh: one set call, one miss, one hit.
C29_Witness ==
    /\ Len(loaded.symbols) = 2
    /\ \E k, h \in Range(loaded.symbols) :
          /\ was_stale(k) /\ loaded.fetched[k] = "new"
          /\ was_fresh(h)
          /\ loaded.set_calls = {k}
    /\ loaded.cache_misses = 1 /\ loaded.cache_hits = 1

\* The units of the scan whose symbol price resolution left without data.
units_without_data ==
    {i \in DOMAIN units :
        scan.price_map[scan.symbols[i]] \in {None, EmptyFrame}}

matched(u) == u.error = None /\ u.result = "match"

\* The units the step takes from as_completed.
consumed_by_step ==
    {i \in DOMAIN units :
        i \in DOMAIN units' /\ units[i].state = "done"
                            /\ units'[i].state = "consumed"}

\* C31: on_result is called once for a unit the scenario returned a result
\* or signals for, when the loop consumes it, and at no other moment: not
\* for a unit without data, cancelled, or whose evaluation or provider
\* raised, and not for one whose scenario returned nothing, which adds one
\* to skipped.  A unit is consumed once, so on_result is called at most once
\* per symbol of a scan.
C31_OnResultIffMatch ==
    /\ [](scan.delivered <= Cardinality(consumed_units))
    /\ [][\A i \in consumed_by_step :
            /\ scan'.delivered = scan.delivered + IF matched(units[i]) THEN 1 ELSE 0
            /\ (units[i].error = None /\ units[i].result = "none") =>
                  /\ scan'.skipped = scan.skipped + 1
                  /\ scan'.errors = scan.errors]_vars
    /\ [][scan'.delivered # scan.delivered =>
            \/ scan'.delivered = 0
            \/ Cardinality(consumed_by_step) = 1]_vars
    /\ [][\A i \in DOMAIN units :
            (units[i].state = "consumed" /\ i \in DOMAIN units') =>
                units'[i].state = "consumed"]_vars

\* C31 witness: two symbols with data, neither cancelled; the scenario
\* returned a result for one and nothing for the other: one call of
\* on_result, one symbol skipped.
C31_Witness ==
    /\ resolved_with_summary /\ ~stop_requested
    /\ scan.total = 2 /\ units_without_data = {}
    /\ scan.evaluate_raised = 0
    /\ scan.delivered = 1 /\ scan.skipped = 1

\* C32: fetch_single raises nothing and returns no empty series; it returns
\* nothing when the transport returned nothing or an empty frame, when every
\* attempt raised, and when max_retries allows no attempt.
C32_FetchSingleAbsentOrSeries ==
    observed.called =>
        /\ observed.raised = None
        /\ observed.result # EmptyFrame
        /\ observed.history \in {None, EmptyFrame} => observed.result = None
        /\ observed.outcome # "returned" => observed.result = None
        /\ observed.in.max_retries = 0 =>
              observed.events = <<>> /\ observed.result = None

\* The units whose scenario.evaluate raised and which the loop has not yet
\* taken: only a unit that reached the scenario has both evaluated and an
\* error.
raised_not_consumed ==
    {i \in DOMAIN units :
        units[i].state = "done" /\ units[i].evaluated /\ units[i].error # None}

\* C33: a unit goes to errors exactly when its scenario.evaluate raised,
\* whatever the message: at every moment errors counts the evaluations that
\* raised and that the loop has consumed.
C33_ErrorsByRaiseOnly ==
    scan.errors + Cardinality(raised_not_consumed) = scan.evaluate_raised

\* C34: the cancellation event goes from set to clear only in a step taken
\* while no handle is queued or running, so the event stays set for every
\* unresolved handle that stop() was called for.
C34_StopStaysInEffect ==
    /\ [][(cancel_event /\ ~cancel_event') => unresolved = {}]_vars
    /\ [](\A id \in unresolved : futures[id].stop_called => cancel_event)

\* C35: once stop() has set the event during the loop of a scan, the loop
\* counts at most one more unit: processed never exceeds by more than one
\* the number of units counted at that moment.
C35_AtMostOneMoreUnit ==
    (mgr.id # 0 /\ observed.id = mgr.id) =>
        scan.processed <= observed.counted + 1

\* C36: a start() refused because a scan is running raises RuntimeError and
\* changes nothing of the runner: the active handle, the handles submitted,
\* the event, the manager, the scan and its units are as before, so the
\* event set by an earlier stop() stays set.
C36_BusyStartChangesNothing ==
    /\ [][(scan_active /\ caller' # caller /\ caller'.raised = "RuntimeError")
             => UNCHANGED runner_state]_vars
    /\ [](caller.raised = "RuntimeError" => next_id > 0)

\* C36 witness: start() was refused while the scan, asked to stop, was in
\* its loop; the event is still set and the scan still the active one.
C36_Witness ==
    /\ caller.raised = "RuntimeError"
    /\ scan_active /\ mgr.pc = "loop" /\ active_future = mgr.id
    /\ futures[mgr.id].stop_called /\ cancel_event

\* shutdown() has been called and has returned.
shutdown_returned == mgr.shutdown /\ caller.pc = "idle"

\* C37: shutdown() leaves the cancellation event as it is, so a scan that
\* is running when it is called, with no stop(), goes on with the event
\* clear and none of its units is cancelled at its entry; when shutdown()
\* has returned, no handle is queued or running, the manager is idle, no
\* unit is queued or running, and that scan has had a unit run to its end
\* for every one of its symbols before its handle resolved.
C37_ShutdownWaitsForScan ==
    /\ [][(caller.pc = "idle" /\ caller'.pc = "shutdown")
             => cancel_event' = cancel_event]_vars
    /\ [](\A id \in ScanIds :
            (futures[id].state = "running" /\ futures[id].shutdown_called
               /\ ~futures[id].stop_called) =>
                /\ ~cancel_event
                /\ \A i \in DOMAIN units :
                      (units[i].state = "done" /\ ~units[i].evaluated) =>
                          units[i].error = "missing")
    /\ [](shutdown_returned =>
            /\ mgr.pc = "idle" /\ unresolved = {}
            /\ \A i \in DOMAIN units : units[i].state \in {"done", "consumed"}
            /\ (mgr.id # 0 /\ futures[mgr.id].shutdown_called
                  /\ futures[mgr.id].state = "finished"
                  /\ ~futures[mgr.id].stop_called) =>
                  Len(units) = Len(futures[mgr.id].symbols))

\* The ttl, in days, the provider of the run passes on to the cache.
chart_ttl == IF observed.ttl = <<>> THEN ttl_days ELSE observed.ttl[1]

\* The entry the latest load found is a readable series with a metadata row
\* not older than the ttl.
chart_entry_fresh ==
    LET e == observed.cache_before[observed.key] IN
    /\ e.df \in DOMAIN Frames
    /\ e.indexed
    /\ observed.at - e.updated_at <= chart_ttl

\* The series the latest load found in the cache, fresh or stale, if any.
chart_entry_series ==
    LET e == observed.cache_before[observed.key] IN
    IF e.df \in DOMAIN Frames THEN restore_index_frequency(e.df) ELSE None

\* C38: load returns the cached series, with no fetch and the cache left as
\* it was, when the entry is present and not stale; otherwise it calls
\* fetch_single once and returns what was fetched if that is not empty, the
\* cache then holding it as of now, else the cached series if there is one,
\* else nothing, with the cache left as it was.
C38_ChartLoad ==
    observed.called =>
        IF chart_entry_fresh
        THEN /\ observed.returned = chart_entry_series
             /\ observed.fetch_calls = 0 /\ observed.set_calls = 0
             /\ cache = observed.cache_before
        ELSE /\ observed.fetch_calls = 1
             /\ IF observed.fetched \in DOMAIN Frames
                THEN /\ observed.returned = observed.fetched
                     /\ observed.set_calls = 1
                     /\ cache_get(cache, observed.key) = observed.fetched
                     /\ cache[observed.key].updated_at = observed.at
                     /\ \A k \in Keys \ {observed.key} :
                           cache[k] = observed.cache_before[k]
                ELSE /\ observed.returned = chart_entry_series
                     /\ observed.set_calls = 0
                     /\ cache = observed.cache_before

\* C38 witness: the entry was stale and the fetch came back empty (a frame
\* of NaN rows only): the stale series was returned after one fetch.
C38_Witness ==
    /\ observed.called
    /\ ~chart_entry_fresh /\ chart_entry_series = "old"
    /\ observed.cache_before[observed.key].indexed
    /\ observed.fetched = EmptyFrame
    /\ observed.returned = "old" /\ observed.fetch_calls = 1

\* The token of the request issued last, 0 when there is none.
latest_request ==
    IF window.loads = <<>> THEN 0 ELSE window.loads[Len(window.loads)].token

\* C39: the widget is given an outcome only in a step that handles the
\* outcome of the request issued last, and only while no cancel has come
\* after that request; what the widget shows as data or error is the
\* outcome of the load of the request it was handled for.
C39_OnlyLatestRequestApplied ==
    /\ [][(window'.chart # window.chart
             /\ window'.chart.shown \in {"data", "error"}) =>
            /\ window'.chart.token = latest_request
            /\ window'.chart.token = window.chart_request_token
            /\ window'.chart_request_token = window.chart_request_token]_vars
    /\ [](window.chart.shown \in {"data", "error"} =>
            /\ window.chart.token <= window.chart_request_token
            /\ \E n \in DOMAIN window.loads :
                  /\ window.loads[n].token = window.chart.token
                  /\ window.loads[n].state = "finished"
                  /\ window.loads[n].outcome = window.chart.outcome)

\* C39 witness: two requests were made; the outcome of the first reached
\* its handler after the second request and was dropped, the outcome of the
\* second is shown.
C39_Witness ==
    /\ Len(window.loads) = 2
    /\ window.loads[1].relay = "invoked" /\ window.loads[2].relay = "invoked"
    /\ window.events = {}
    /\ window.chart = [shown |-> "data", token |-> 2, outcome |-> "frame"]
    /\ window.loads[1].outcome = "error"

=============================================================================
